---- MODULE Spec2Model ----
(***************************************************************************)
(* A model of eina_file.c (src/unnamed/part_009): the process-wide cache   *)
(* of Eina_File handles, their whole-file and windowed mappings, and the   *)
(* mmap fault propagator.                                                  *)
(*                                                                         *)
(* Every critical section of the C code is one action.  The only shared    *)
(* read made outside a lock, the test of file->refcount in                 *)
(* eina_file_close (line 1059), is an action of its own, so that the       *)
(* interleavings of concurrent closes and opens are explored.              *)
(*                                                                         *)
(* Addresses are scaled down: a page is PageSize bytes, the address space  *)
(* is 0 .. MAP_FAILED, page 0 (holding NULL) and the last page (holding    *)
(* MAP_FAILED) are never handed out by mmap.                               *)
(*                                                                         *)
(* eina_file_open is one action: what it does before taking the cache lock *)
(* (sanitize, open, fstat) changes no state of the library.                *)
(*                                                                         *)
(* Spec lets the threads interleave; SpecSeq makes the calls one after the *)
(* other, each running to its end.  held and outstanding record what the   *)
(* callers were given and did not give back yet: the code never reads      *)
(* them, the callers' discipline and the properties do.                    *)
(*                                                                         *)
(* SpecWild, SpecFail and SpecIter make the calls one after the other as   *)
(* SpecSeq does, with calls SpecSeq leaves out: eina_file_map_free of an   *)
(* address the caller does not hold, calls that return NULL, and line      *)
(* iterators.  Three specifications look at one thing alone: SpecLock at   *)
(* the order of the lock operations and system calls of every call,        *)
(* SpecRange at the range check of eina_file_map_new in machine words,     *)
(* SpecLines at one line iterator reading one buffer.                      *)
(*                                                                         *)
(* SpecStale is SpecSeq with the address of the last fault remembered,     *)
(* SpecDown is SpecSeq ended by eina_file_shutdown, and SpecPar lets the   *)
(* threads create and dispose of line iterators at the same time.  The     *)
(* functions that read nothing but their arguments are specified each on   *)
(* its own, over all small arguments: _eina_file_timestamp_compare         *)
(* (SpecStat), eina_file_path_sanitize (SpecPath), eina_file_split         *)
(* (SpecSplit), and eina_file_dir_list over small directory trees          *)
(* (SpecList).                                                             *)
(*                                                                         *)
(* SpecCalls is SpecSeq with every call and what it returned remembered,   *)
(* SpecEvict remembers the closes alone and lets the file change on disk,  *)
(* SpecReg lets the threads close, open and map while faults arrive, and   *)
(* SpecFault is SpecLock with the reads of mapped memory and the faults    *)
(* they raise: the fault propagator runs on the thread that made the       *)
(* read, before the read is done.                                          *)
(*                                                                         *)
(* Not modelled: the rules that only advise the kernel (madvise; the       *)
(* populate rule is the read of SpecFault and nothing else), huge pages (a *)
(* retry that ends in the same two outcomes), the shared flag (it only     *)
(* selects shm_open over open), extended attributes, the directory         *)
(* iterators other than the one eina_file_dir_list uses.                   *)
(***************************************************************************)
EXTENDS Integers, FiniteSets, Sequences, TLC

\* ------------------------------------------------------------------ bounds
\* Eina_File objects ever allocated in a run.
MaxHandles == 2
\* References to handles the callers hold at a time, and largest reference
\* count they drive a mapping to.
MaxRef == 2
\* Number of successive on-disk versions of a file.
MaxVer == 2
\* Bytes of the longest file a line iterator reads.
MaxLen == 8
\* Bytes of the longest path that is sanitized or split.
MaxPath == 6
\* Levels of subdirectories below a directory that is listed.
MaxDepth == 2

\* ------------------------------------------------------- program constants
\* The page size the fault handler is called with (scaled).
PageSize == 2
\* The bytes _eina_fine_eol scans at a time (4096 in the code) and the
\* alignment its first chunk ends on (0x3FF + 1 in the code), scaled to the
\* files of the model.
EolChunk == 4
EolAlign == 2
\* (void *) -1 in the scaled address space.
MAP_FAILED == 7
NULL == 0

Threads == {"t1", "t2"}
LineIterators == {"it1", "it2"}
Paths == {"/a"}
Handles == 1 .. MaxHandles
NoFile == NULL
Addrs == 0 .. MAP_FAILED
\* A pointer and an unsigned long have the same width: MAP_FAILED is the
\* largest of them.
WordMod == MAP_FAILED + 1
Words == 0 .. WordMod - 1
TopPage == ((MAP_FAILED + 1) \div PageSize) - 2
Pages == 1 .. TopPage
\* The (offset, length) pairs the callers pass to eina_file_map_new: the first
\* byte, the first page, and a page that starts at the second byte.
MapRequests == {<<0, 1>>, <<0, PageSize>>, <<1, PageSize>>}
WinKeys == MapRequests
\* The addresses the faults are at: the byte below the first page, its two
\* bytes, the first byte of the second page and the byte after it.
FaultAddrs == {PageSize - 1, PageSize, PageSize + 1, 2 * PageSize, 3 * PageSize}

\* ------------------------------------------------------------- the file system
\* struct stat of version v of a file: every modification changes st_mtime,
\* and every third one the size, between a full page and one byte less.
StatOf(v) ==
  [st_dev |-> 1, st_ino |-> 1, st_size |-> PageSize - ((v \div 3) % 2),
   st_mtime |-> v, st_mtim_nsec |-> 0]

\* Lines 1014-1022: what eina_file_open keeps of the struct stat in a new
\* Eina_File. The structure (lines 119-144) has no field for st_dev.
Stored(st) ==
  [length |-> st.st_size, mtime |-> st.st_mtime, mtime_nsec |-> st.st_mtim_nsec,
   inode |-> st.st_ino]

\* The first machine word of version v of a file, read as a pointer: text in
\* odd versions, the bytes of the address of the second page in even ones.
ContentWord(v) == IF v % 2 = 1 THEN 1 ELSE 2 * PageSize

\* ------------------------------------------------------------------- state
VARIABLES
  disk,     \* disk[p]: the version of the file at path p
  cache,    \* _eina_file_cache: the set of registered handles (keyed by filename)
  file,     \* file[h]: the Eina_File object h
  mapped,   \* the pages the OS has currently mapped
  pc,       \* pc[t]: where thread t is
  loc,      \* loc[t]: the locals of the call thread t is in
  held,     \* held[h]: references to h the callers hold (returned by open, not yet closed)
  uaf,      \* a thread has read or written a freed Eina_File
  ndestroy, \* ndestroy[h]: the times h was destroyed
  nfd,      \* the descriptors the library has open
  outstanding \* outstanding[h][k]: eina_file_map_new calls for window k of h
              \* that returned its address, less the eina_file_map_free calls
              \* made with that address

\* The locks, for the specification of the locking alone (SpecLock).
VARIABLES
  lockprog,  \* lockprog[t]: the lock operations and system calls thread t
             \* still has to make in the call it is in
  cachelock, \* the thread that holds _eina_file_lock_cache, or NoThread
  filelock   \* filelock[h]: the thread that holds the lock of Eina_File h

lockvars == <<lockprog, cachelock, filelock>>

\* One call of eina_file_map_new, for the specification of its range check
\* alone (SpecRange).
VARIABLES
  rq         \* the length of the file, the offset and length asked for, and
             \* what the call returned once it is done

\* What the last call was, for the specification of the calls that fail
\* (SpecFail).
VARIABLES
  lastcall   \* "open_failed", "map_new_failed", or "other"

\* The line iterators, for the specification of their references (SpecIter).
VARIABLES
  lines      \* lines[i]: the Eina_Lines_Iterator i (its fp and map), or NoIter

\* One line iterator reading one buffer, for the specification of
\* _eina_file_map_lines_iterator_next alone (SpecLines).
VARIABLES
  buf,       \* the bytes of the mapped file
  it,        \* the Eina_Lines_Iterator: current.start, current.end,
             \* current.length, current.index and boundary (offsets from
             \* it->map), and what the last call of next returned
  spans      \* the lines next returned so far: <<start, length>> each

linevars == <<buf, it, spans>>

\* One call looked at on its own: a function that reads nothing but its
\* arguments (SpecStat), or the last call of the fault handler (SpecStale).
VARIABLES
  fn         \* the call: its name, its arguments, whether it has returned, and
             \* what it returned

filevars == <<disk, cache, file, mapped, pc, loc, held, uaf, ndestroy, nfd,
              outstanding>>

\* The end of the library, for the specification of eina_file_shutdown
\* (SpecDown).
VARIABLES
  shut,      \* eina_file_shutdown was called
  errlog     \* errlog[p]: the "still open" messages logged for the path p

sidevars == <<fn, shut, errlog>>
vars == <<filevars, lockvars, rq, lastcall, lines, linevars, sidevars>>

\* An Eina_File_Map that is in no table.
NoMap == [map |-> MAP_FAILED, refcount |-> 0, faulty |-> FALSE]

\* The fields of an Eina_File that was never allocated.
NoEinaFile ==
  [st |-> "unalloc", filename |-> "", ver |-> 0, refcount |-> 0,
   global_map |-> MAP_FAILED, global_refcount |-> 0, global_faulty |-> FALSE,
   delete_me |-> FALSE,
   map |-> [k \in WinKeys |-> NoMap], fkeys |-> {}, rkeys |-> {}]

NoLoc == [f |-> NoFile]

NoneOutstanding == [k \in WinKeys |-> 0]

NoThread == "none"

\* No thread is inside a call and no lock is held.
LockInit ==
  /\ lockprog = [t \in Threads |-> <<>>]
  /\ cachelock = NoThread
  /\ filelock = [h \in Handles |-> NoThread]

\* No call of eina_file_map_new is looked at.
NoRequest == [flen |-> 0, offset |-> 0, length |-> 0, done |-> TRUE, ret |-> NULL]

FileInit ==
  /\ disk = [p \in Paths |-> 1]
  /\ cache = {}
  /\ file = [h \in Handles |-> NoEinaFile]
  /\ mapped = {}
  /\ pc = [t \in Threads |-> "idle"]
  /\ loc = [t \in Threads |-> NoLoc]
  /\ held = [h \in Handles |-> 0]
  /\ uaf = FALSE
  /\ ndestroy = [h \in Handles |-> 0]
  /\ nfd = 0
  /\ outstanding = [h \in Handles |-> NoneOutstanding]

\* No function is called on its own.
NoCall == [name |-> "none"]
SideInit == fn = NoCall /\ shut = FALSE /\ errlog = [p \in Paths |-> 0]

\* No buffer is read.
NoLines ==
  /\ buf = <<>>
  /\ it = [start |-> 0, end |-> 0, length |-> 0, index |-> 0,
           boundary |-> EolChunk, ret |-> "none"]
  /\ spans = <<>>

\* An iterator that does not exist.
NoIter == [fp |-> NoFile, map |-> NULL]

Init ==
  /\ FileInit
  /\ LockInit
  /\ rq = NoRequest
  /\ lastcall = "other"
  /\ SideInit
  /\ lines = [i \in LineIterators |-> NoIter]
  /\ NoLines

Length(F, h) == StatOf(F[h].ver).st_size

\* ------------------------------------------------------------------ the OS
PagesOf(addr, length) ==
  {p \in Pages : addr < (p + 1) * PageSize /\ p * PageSize < addr + length}

\* The results mmap(NULL, length, PROT_READ, flags, fd, offset) can have with
\* the pages M mapped: MAP_FAILED (EINVAL for an empty or unaligned request,
\* ENOMEM at any time), or the start of a free run of pages.
mmap(M, length, offset) ==
  IF length = 0 \/ offset % PageSize # 0
  THEN {MAP_FAILED}
  ELSE {MAP_FAILED} \cup
       {p * PageSize : p \in {q \in Pages :
            /\ PagesOf(q * PageSize, length) \cap M = {}
            /\ q * PageSize + length <= (TopPage + 1) * PageSize}}

\* munmap(addr, length): the pages left mapped (EINVAL for MAP_FAILED).
munmap(M, addr, length) ==
  IF addr = MAP_FAILED \/ addr % PageSize # 0 THEN M ELSE M \ PagesOf(addr, length)

\* ----------------------------------------------------------- the hash tables
\* eina_hash_find(_eina_file_cache, filename): the registered handles with that
\* key (the code keeps them to at most one).
CacheFind(C, F, filename) == {f \in C : F[f].filename = filename}

\* eina_hash_del(hash, key, data): the entry of that key is removed when its
\* data is the data given.
eina_hash_del(C, F, key, data) ==
  IF data \in C /\ F[data].filename = key THEN C \ {data} ELSE C

\* The comparison of two (offset, length) keys.  The C function returns the
\* difference of two unsigned long as an int; the offsets and lengths of the
\* model are far below 2^31, where the conversion changes nothing.
_eina_file_map_key_cmp(key1, key2) ==
  IF key1[1] - key2[1] = 0 THEN key1[2] - key2[2] ELSE key1[1] - key2[1]

\* eina_hash_find(file->map, &key)
MapFind(f, key) == {k \in f.fkeys : _eina_file_map_key_cmp(k, key) = 0}

\* The key under which line 1330 enters a record in file->rmap.  rmap is an
\* eina_hash_pointer_new table: it reads the pointer value at the address it
\* is given as key.  eina_hash_direct_add(file->rmap, map->map, map) gives it
\* the mapped memory itself, so the key is the first word of the window.
RmapKey(f, k) == ContentWord(f.ver)

\* eina_hash_find(file->rmap, &map): the records whose key is the value of map.
RmapFind(f, addr) == {k \in f.rkeys : RmapKey(f, k) = addr}

\* ------------------------------------------------------------- the handles
\* The comparison with the size taken for the time stamp.
timestamp_compare_size_for_mtime(f, st) ==
  /\ f.mtime = st.st_size
  /\ f.length = st.st_size
  /\ f.inode = st.st_ino
  /\ f.mtime_nsec = st.st_mtim_nsec

\* Lines 470-486, in a build with _STAT_VER_LINUX.
_eina_file_timestamp_compare(f, st) ==
  /\ f.mtime = st.st_mtime
  /\ f.length = st.st_size
  /\ f.inode = st.st_ino
  /\ f.mtime_nsec = st.st_mtim_nsec

\* The pages of every window of f: eina_hash_free(file->map) calls
\* _eina_file_map_close, which unmaps, on each record.
WindowPages(f) == UNION {PagesOf(f.map[k].map, k[2]) : k \in f.fkeys}

FreedFile == [NoEinaFile EXCEPT !.st = "freed"]

\* _eina_file_real_close without the test of the reference count.
real_close_while_referenced(F, M, h) ==
  [file |-> [F EXCEPT ![h] = FreedFile],
   mapped |-> munmap(M \ WindowPages(F[h]), F[h].global_map, Length(F, h)),
   destroyed |-> TRUE]

\* _eina_file_real_close(file) on the objects F and the mapped pages M.
_eina_file_real_close(F, M, h) ==
  IF F[h].refcount # 0
  THEN [file |-> F, mapped |-> M, destroyed |-> FALSE]
  ELSE [file |-> [F EXCEPT ![h] = FreedFile],
        mapped |-> munmap(M \ WindowPages(F[h]), F[h].global_map, Length(F, h)),
        destroyed |-> TRUE]

\* malloc(sizeof(Eina_File) + ...): NULL, or memory never handed out before.
MallocFile(F) ==
  LET free == {h \in Handles : F[h].st = "unalloc"}
  IN {NoFile} \cup {h \in free : \A g \in free : h <= g}

\* A thread starts a call when it is in none; no thread runs on once freed
\* memory has been touched.
Idle(t) == ~uaf /\ pc[t] = "idle"

\* The references to the handles of S the callers hold.
RECURSIVE HeldIn(_)
HeldIn(S) ==
  IF S = {} THEN 0
  ELSE LET h == CHOOSE g \in S : TRUE IN held[h] + HeldIn(S \ {h})

\* A caller passes h to an operation only while it holds a reference to it.
Holds(h) == held[h] > 0 /\ file[h].st = "live"

\* ------------------------------------------------------------ eina_file_open
\* An error path that forgets the descriptor.
on_error_keeps_descriptor(fds, fd_open) == fds

\* Lines 1044-1047: with fds descriptors open, the one of this call among
\* them when fd_open, the descriptors left open.
on_error(fds, fd_open) == IF fd_open THEN fds - 1 ELSE fds

\* Lines 984-1042: the section under _eina_file_lock_cache, for the sanitized
\* path p and the fstat result st of the descriptor just opened (it counts
\* among the open descriptors from here on; line 1032 closes it when a cached
\* handle is reused).
OpenCache(p, ver) ==
  LET st == StatOf(ver)
      found == CacheFind(cache, file, p)
  IN \E f0 \in (IF found = {} THEN {NoFile} ELSE found) :
     LET stale == f0 # NoFile /\ ~_eina_file_timestamp_compare(Stored(StatOf(file[f0].ver)), st)
         C1 == IF stale THEN eina_hash_del(cache, file, file[f0].filename, f0) ELSE cache
         rc == IF stale
               THEN _eina_file_real_close([file EXCEPT ![f0].delete_me = TRUE], mapped, f0)
               ELSE [file |-> file, mapped |-> mapped, destroyed |-> FALSE]
         fl == IF stale THEN NoFile ELSE f0
         fds == IF rc.destroyed THEN nfd ELSE nfd + 1
     IN /\ mapped' = rc.mapped
        /\ ndestroy' = IF rc.destroyed THEN [ndestroy EXCEPT ![f0] = @ + 1] ELSE ndestroy
        /\ outstanding' = IF rc.destroyed
                          THEN [outstanding EXCEPT ![f0] = NoneOutstanding]
                          ELSE outstanding
        /\ IF fl = NoFile
           THEN \E n \in MallocFile(rc.file) :
                  IF n = NoFile
                  THEN /\ file' = rc.file
                       /\ cache' = C1
                       /\ held' = held
                       /\ nfd' = on_error(fds, TRUE)
                  ELSE /\ file' = [rc.file EXCEPT ![n] =
                              [NoEinaFile EXCEPT !.st = "live", !.filename = p,
                                                 !.ver = ver, !.refcount = 1]]
                       /\ cache' = C1 \cup {n}
                       /\ held' = [held EXCEPT ![n] = @ + 1]
                       /\ nfd' = fds
           ELSE /\ file' = [rc.file EXCEPT ![fl].refcount = @ + 1]
                /\ cache' = C1
                /\ held' = [held EXCEPT ![fl] = @ + 1]
                /\ nfd' = fds - 1

\* What can go wrong before the cache lock is taken: the path cannot be
\* sanitized (or shared memory is asked for and not supported), the descriptor
\* cannot be opened, fcntl or fstat fails on the open descriptor.
OpenErrors == {"sanitize", "open", "fstat"}

\* eina_file_open(path, shared), lines 943-1048.  Sanitizing the path, opening
\* the descriptor and fstat (lines 955-982) touch no state of the library: when
\* one of them fails the call returns NULL through on_error, otherwise the
\* stat is that of the file on disk and the locked section follows.
eina_file_open(t, p) ==
  /\ Idle(t)
  /\ HeldIn(Handles) < MaxRef
  /\ \E err \in OpenErrors \cup {"none"} :
        IF err = "none"
        THEN OpenCache(p, disk[p])
        ELSE /\ nfd' = IF err = "fstat" THEN on_error(nfd + 1, TRUE)
                       ELSE IF err = "open" THEN on_error(nfd, FALSE) ELSE nfd
             /\ UNCHANGED <<cache, file, mapped, held, ndestroy, outstanding>>
  /\ UNCHANGED <<disk, pc, loc, uaf>>

\* ----------------------------------------------------------- eina_file_close
\* Lines 1055-1057: the decrement under the file's lock.
eina_file_close_unref(t, h) ==
  /\ Idle(t)
  /\ Holds(h)
  /\ file' = [file EXCEPT ![h].refcount = @ - 1]
  /\ held' = [held EXCEPT ![h] = @ - 1]
  /\ pc' = [pc EXCEPT ![t] = "close_test"]
  /\ loc' = [loc EXCEPT ![t] = [NoLoc EXCEPT !.f = h]]
  /\ UNCHANGED <<disk, cache, mapped, uaf, ndestroy, nfd, outstanding>>

\* Line 1059: file->refcount read with no lock held.  Read from a freed object
\* it is any value.
eina_file_close_test(t) ==
  /\ ~uaf
  /\ pc[t] = "close_test"
  /\ LET h == loc[t].f
     IN IF file[h].st = "freed"
        THEN /\ uaf' = TRUE
             /\ \E zero \in BOOLEAN :
                  /\ pc' = [pc EXCEPT ![t] = IF zero THEN "close_del" ELSE "idle"]
                  /\ loc' = [loc EXCEPT ![t] = IF zero THEN @ ELSE NoLoc]
        ELSE /\ uaf' = uaf
             /\ pc' = [pc EXCEPT ![t] = IF file[h].refcount # 0 THEN "idle" ELSE "close_del"]
             /\ loc' = [loc EXCEPT ![t] = IF file[h].refcount # 0 THEN NoLoc ELSE @]
  /\ UNCHANGED <<disk, cache, file, mapped, held, ndestroy, nfd, outstanding>>

\* A close that destroys the handle and leaves its entry in the cache.
close_del_keeps_the_entry(t) ==
  /\ ~uaf
  /\ pc[t] = "close_del"
  /\ LET h == loc[t].f
     IN IF file[h].st = "freed"
        THEN /\ uaf' = TRUE
             /\ \E zero \in BOOLEAN :
                  ndestroy' = IF zero THEN [ndestroy EXCEPT ![h] = @ + 1] ELSE ndestroy
             /\ UNCHANGED <<cache, file, mapped, nfd, outstanding>>
        ELSE LET rc == _eina_file_real_close(file, mapped, h)
             IN /\ cache' = cache
                /\ file' = rc.file
                /\ mapped' = rc.mapped
                /\ nfd' = IF rc.destroyed THEN nfd - 1 ELSE nfd
                /\ ndestroy' = IF rc.destroyed
                               THEN [ndestroy EXCEPT ![h] = @ + 1] ELSE ndestroy
                /\ outstanding' = IF rc.destroyed
                                  THEN [outstanding EXCEPT ![h] = NoneOutstanding]
                                  ELSE outstanding
                /\ uaf' = uaf
  /\ pc' = [pc EXCEPT ![t] = "idle"]
  /\ loc' = [loc EXCEPT ![t] = NoLoc]
  /\ UNCHANGED <<disk, held>>

\* Lines 1060-1065: under _eina_file_lock_cache, the removal from the cache and
\* _eina_file_real_close.  On a freed object both read freed memory, and
\* _eina_file_real_close frees it again when it reads a zero refcount.
eina_file_close_del(t) ==
  /\ ~uaf
  /\ pc[t] = "close_del"
  /\ LET h == loc[t].f
     IN IF file[h].st = "freed"
        THEN /\ uaf' = TRUE
             /\ \E zero \in BOOLEAN :
                  ndestroy' = IF zero THEN [ndestroy EXCEPT ![h] = @ + 1] ELSE ndestroy
             /\ UNCHANGED <<cache, file, mapped, nfd, outstanding>>
        ELSE LET rc == _eina_file_real_close(file, mapped, h)
             IN /\ cache' = eina_hash_del(cache, file, file[h].filename, h)
                /\ file' = rc.file
                /\ mapped' = rc.mapped
                /\ nfd' = IF rc.destroyed THEN nfd - 1 ELSE nfd
                /\ ndestroy' = IF rc.destroyed
                               THEN [ndestroy EXCEPT ![h] = @ + 1] ELSE ndestroy
                /\ outstanding' = IF rc.destroyed
                                  THEN [outstanding EXCEPT ![h] = NoneOutstanding]
                                  ELSE outstanding
                /\ uaf' = uaf
  /\ pc' = [pc EXCEPT ![t] = "idle"]
  /\ loc' = [loc EXCEPT ![t] = NoLoc]
  /\ UNCHANGED <<disk, held>>

\* A close that removes from the cache whatever is registered under the name
\* of the handle.
close_removes_the_name(t, h) ==
  /\ Idle(t)
  /\ Holds(h)
  /\ LET F1 == [file EXCEPT ![h].refcount = @ - 1]
         rc == _eina_file_real_close(F1, mapped, h)
     IN IF F1[h].refcount # 0
        THEN /\ file' = F1
             /\ UNCHANGED <<cache, mapped, ndestroy, nfd, outstanding>>
        ELSE /\ cache' = cache \ CacheFind(cache, F1, F1[h].filename)
             /\ file' = rc.file
             /\ mapped' = rc.mapped
             /\ nfd' = IF rc.destroyed THEN nfd - 1 ELSE nfd
             /\ ndestroy' = IF rc.destroyed
                            THEN [ndestroy EXCEPT ![h] = @ + 1] ELSE ndestroy
             /\ outstanding' = IF rc.destroyed
                               THEN [outstanding EXCEPT ![h] = NoneOutstanding]
                               ELSE outstanding
  /\ held' = [held EXCEPT ![h] = @ - 1]
  /\ UNCHANGED <<disk, pc, loc, uaf>>

\* eina_file_close(file), lines 1050-1066, run with no other call under way:
\* the three steps above in one.
eina_file_close(t, h) ==
  /\ Idle(t)
  /\ Holds(h)
  /\ LET F1 == [file EXCEPT ![h].refcount = @ - 1]
         rc == _eina_file_real_close(F1, mapped, h)
     IN IF F1[h].refcount # 0
        THEN /\ file' = F1
             /\ UNCHANGED <<cache, mapped, ndestroy, nfd, outstanding>>
        ELSE /\ cache' = eina_hash_del(cache, F1, F1[h].filename, h)
             /\ file' = rc.file
             /\ mapped' = rc.mapped
             /\ nfd' = IF rc.destroyed THEN nfd - 1 ELSE nfd
             /\ ndestroy' = IF rc.destroyed
                            THEN [ndestroy EXCEPT ![h] = @ + 1] ELSE ndestroy
             /\ outstanding' = IF rc.destroyed
                               THEN [outstanding EXCEPT ![h] = NoneOutstanding]
                               ELSE outstanding
  /\ held' = [held EXCEPT ![h] = @ - 1]
  /\ UNCHANGED <<disk, pc, loc, uaf>>

\* ------------------------------------------------------------- the mappings
\* Lines 1106-1130 of eina_file_map_all, under the file's lock: map the whole
\* file if it is not mapped, take a reference, return the address (NULL when
\* mmap failed).
MapAllLocked(h) ==
  \E a \in (IF file[h].global_map = MAP_FAILED
            THEN mmap(mapped, Length(file, h), 0)
            ELSE {file[h].global_map}) :
     /\ mapped' = IF a # MAP_FAILED THEN mapped \cup PagesOf(a, Length(file, h)) ELSE mapped
     /\ file' = [file EXCEPT ![h].global_map = a,
                             ![h].global_refcount = IF a # MAP_FAILED THEN @ + 1 ELSE @]

eina_file_map_all(t, h) ==
  /\ Idle(t)
  /\ Holds(h)
  /\ file[h].global_refcount < MaxRef
  /\ MapAllLocked(h)
  /\ UNCHANGED <<disk, cache, pc, loc, held, uaf, ndestroy, nfd, outstanding>>

\* The record put in both tables before the result of mmap is looked at.
map_new_registers_before_test(h, key) ==
  LET found == MapFind(file[h], key)
  IN IF found # {}
     THEN \E k \in found :
            /\ file[h].map[k].refcount < MaxRef
            /\ file' = [file EXCEPT ![h].map[k].refcount = @ + 1]
            /\ mapped' = mapped
            /\ outstanding' = [outstanding EXCEPT ![h][k] = @ + 1]
     ELSE \E a \in mmap(mapped, key[2], key[1]) :
            IF a = MAP_FAILED
            THEN /\ file' = [file EXCEPT ![h].fkeys = @ \cup ({key} \cap WinKeys),
                                         ![h].rkeys = @ \cup ({key} \cap WinKeys)]
                 /\ UNCHANGED <<mapped, outstanding>>
            ELSE \E fy \in BOOLEAN :
                   /\ file' = [file EXCEPT
                         ![h].map[key] = [map |-> a, refcount |-> 1, faulty |-> fy],
                         ![h].fkeys = @ \cup {key},
                         ![h].rkeys = @ \cup {key}]
                   /\ mapped' = mapped \cup PagesOf(a, key[2])
                   /\ outstanding' = [outstanding EXCEPT ![h][key] = @ + 1]

\* Lines 1293-1339 of eina_file_map_new, under the file's lock.  malloc does
\* not clear the record: its faulty bit starts with any value.  When malloc
\* fails the call ends as when mmap fails, with nothing changed.
MapNewLocked(h, key) ==
  LET found == MapFind(file[h], key)
  IN IF found # {}
     THEN \E k \in found :
            /\ file[h].map[k].refcount < MaxRef
            /\ file' = [file EXCEPT ![h].map[k].refcount = @ + 1]
            /\ mapped' = mapped
            /\ outstanding' = [outstanding EXCEPT ![h][k] = @ + 1]
     ELSE \E a \in mmap(mapped, key[2], key[1]) :
            IF a = MAP_FAILED
            THEN UNCHANGED <<file, mapped, outstanding>>
            ELSE \E fy \in BOOLEAN :
                   /\ file' = [file EXCEPT
                         ![h].map[key] = [map |-> a, refcount |-> 1, faulty |-> fy],
                         ![h].fkeys = @ \cup {key},
                         ![h].rkeys = @ \cup {key}]
                   /\ mapped' = mapped \cup PagesOf(a, key[2])
                   /\ outstanding' = [outstanding EXCEPT ![h][key] = @ + 1]

\* Lines 1281-1284: offset and length are unsigned long, and their sum is
\* computed in that type.
OutOfFile(offset, length, flen) ==
  offset > flen \/ (offset + length) % WordMod > flen

\* A request for the whole file served as a window of its own.
map_new_whole_file_as_window(t, h, offset, length) ==
  /\ Idle(t)
  /\ Holds(h)
  /\ IF OutOfFile(offset, length, Length(file, h))
     THEN UNCHANGED <<file, mapped, outstanding>>
     ELSE MapNewLocked(h, <<offset, length>>)
  /\ UNCHANGED <<disk, cache, pc, loc, held, uaf, ndestroy, nfd>>

\* eina_file_map_new(file, rule, offset, length), lines 1272-1346.
eina_file_map_new(t, h, offset, length) ==
  /\ Idle(t)
  /\ Holds(h)
  /\ IF OutOfFile(offset, length, Length(file, h))
     THEN UNCHANGED <<file, mapped, outstanding>>
     ELSE IF offset = 0 /\ length = Length(file, h)
          THEN /\ file[h].global_refcount < MaxRef
               /\ MapAllLocked(h)
               /\ outstanding' = outstanding
          ELSE MapNewLocked(h, <<offset, length>>)
  /\ UNCHANGED <<disk, cache, pc, loc, held, uaf, ndestroy, nfd>>

\* The whole-file mapping kept when its last reference goes.
global_unref_keeps_last(f, M) ==
  IF f.global_refcount - 1 >= 0
  THEN [f |-> [f EXCEPT !.global_refcount = @ - 1], mapped |-> M]
  ELSE [f |-> [f EXCEPT !.global_refcount = @ - 1, !.global_map = MAP_FAILED],
        mapped |-> munmap(M, f.global_map, StatOf(f.ver).st_size)]

\* The fault mark dropped with every reference given back.
global_unref_clears_faulty(f, M) ==
  IF f.global_refcount - 1 > 0
  THEN [f |-> [f EXCEPT !.global_refcount = @ - 1, !.global_faulty = FALSE], mapped |-> M]
  ELSE [f |-> [f EXCEPT !.global_refcount = @ - 1, !.global_map = MAP_FAILED,
                        !.global_faulty = FALSE],
        mapped |-> munmap(M, f.global_map, StatOf(f.ver).st_size)]

\* Lines 1357-1362 of eina_file_map_free: the whole-file mapping loses a
\* reference, and is unmapped with none left.
GlobalUnref(f, M) ==
  IF f.global_refcount - 1 > 0
  THEN [f |-> [f EXCEPT !.global_refcount = @ - 1], mapped |-> M]
  ELSE [f |-> [f EXCEPT !.global_refcount = @ - 1, !.global_map = MAP_FAILED],
        mapped |-> munmap(M, f.global_map, StatOf(f.ver).st_size)]

\* Lines 1372-1380 of eina_file_map_free: the record em loses a reference, and
\* with none left leaves both tables; file->map's free callback unmaps it.
WindowUnref(f, M, em) ==
  IF f.map[em].refcount - 1 > 0
  THEN [f |-> [f EXCEPT !.map[em].refcount = @ - 1], mapped |-> M]
  ELSE [f |-> [f EXCEPT !.map[em] = NoMap, !.rkeys = @ \ {em}, !.fkeys = @ \ {em}],
        mapped |-> munmap(M, f.map[em].map, em[2])]

\* The window of h that was mapped at addr, if any.
WindowAt(f, addr) == {k \in f.fkeys : f.map[k].map = addr}

\* The references to the whole-file mapping of h that line iterators own.
IterRefs(h) ==
  Cardinality({i \in LineIterators :
                 lines[i].fp = h /\ lines[i].map = file[h].global_map})

\* The addresses the callers give back: that of the whole-file mapping of h
\* while it is mapped (and not only for line iterators), and those
\* eina_file_map_new returned to them for its windows and they did not give
\* back yet.
HeldAddrs(h) ==
  {file[h].global_map : x \in {y \in {1} :
      /\ file[h].global_map # MAP_FAILED
      /\ IterRefs(h) = 0 \/ file[h].global_refcount > IterRefs(h)}}
    \cup {file[h].map[k].map : k \in {j \in file[h].fkeys : outstanding[h][j] > 0}}

eina_file_map_free(t, h, addr) ==
  /\ Idle(t)
  /\ Holds(h)
  /\ IF file[h].global_map = addr
     THEN LET r == GlobalUnref(file[h], mapped)
          IN /\ file' = [file EXCEPT ![h] = r.f]
             /\ mapped' = r.mapped
     ELSE LET found == RmapFind(file[h], addr)
          IN IF found = {}
             THEN UNCHANGED <<file, mapped>>
             ELSE \E em \in found :
                    LET r == WindowUnref(file[h], mapped, em)
                    IN /\ file' = [file EXCEPT ![h] = r.f]
                       /\ mapped' = r.mapped
  /\ outstanding' = [outstanding EXCEPT ![h] =
        [k \in WinKeys |-> IF k \in WindowAt(file[h], addr) /\ @[k] > 0
                           THEN @[k] - 1 ELSE @[k]]]
  /\ UNCHANGED <<disk, cache, pc, loc, held, uaf, ndestroy, nfd>>

\* eina_file_map_faulted(file, map)
eina_file_map_faulted(f, addr) ==
  IF f.global_map = addr
  THEN f.global_faulty
  ELSE \E em \in RmapFind(f, addr) : f.map[em].faulty

\* ---------------------------------------------------- eina_file_mmap_faulty
\* The test of lines 653-654 and 666-667 on a mapping at base.  Pointer
\* arithmetic wraps at the end of the address space.
FaultHit(addr, page_size, base, length) ==
  /\ addr < (base + length) % (MAP_FAILED + 1)
  /\ (addr + page_size) % (MAP_FAILED + 1) >= base

GlobalHit(f, addr, page_size) ==
  f.global_map # NULL /\ FaultHit(addr, page_size, f.global_map, StatOf(f.ver).st_size)

WindowHits(f, addr, page_size) ==
  {k \in f.fkeys : FaultHit(addr, page_size, f.map[k].map, k[2])}

\* Lines 642-683.  The two hash iterators visit the handles and the records in
\* the order of the tables, which is any order: the first handle with a hit is
\* any handle with a hit, and in it the whole-file mapping goes before the
\* windows.
eina_file_mmap_faulty(t, addr, page_size) ==
  /\ Idle(t)
  /\ LET hit == {f \in cache : \/ GlobalHit(file[f], addr, page_size)
                               \/ WindowHits(file[f], addr, page_size) # {}}
     IN IF hit = {}
        THEN file' = file
        ELSE \E f \in hit :
               IF GlobalHit(file[f], addr, page_size)
               THEN file' = [file EXCEPT ![f].global_faulty = TRUE]
               ELSE \E k \in WindowHits(file[f], addr, page_size) :
                      file' = [file EXCEPT ![f].map[k].faulty = TRUE]
  /\ UNCHANGED <<disk, cache, mapped, pc, loc, held, uaf, ndestroy, nfd, outstanding>>

\* --------------------------------------------------------- the environment
\* Another process rewrites the file at p.
Modify(p) ==
  /\ ~uaf
  /\ disk[p] < MaxVer
  /\ disk' = [disk EXCEPT ![p] = @ + 1]
  /\ UNCHANGED <<cache, file, mapped, pc, loc, held, uaf, ndestroy, nfd, outstanding>>

\* The threads are interchangeable and a call leaves nothing behind in the
\* thread that made it: a new call is made by the first thread that is in none.
Caller ==
  LET idle == {t \in Threads : pc[t] = "idle"}
  IN IF idle = {} THEN {} ELSE {CHOOSE t \in idle : TRUE}

\* Threads run concurrently until one of them touches freed memory: what the
\* program does from there on is undefined.
\* The steps of the library leave the variables of the other specifications
\* alone.
Quiet == UNCHANGED <<lockvars, rq, lastcall, lines, linevars, sidevars>>

Next ==
  \/ \E t \in Caller, p \in Paths : eina_file_open(t, p) /\ Quiet
  \/ \E t \in Caller, h \in Handles : eina_file_close_unref(t, h) /\ Quiet
  \/ \E t \in Threads : eina_file_close_test(t) /\ Quiet
  \/ \E t \in Threads : eina_file_close_del(t) /\ Quiet
  \/ \E t \in Caller, h \in Handles : eina_file_map_all(t, h) /\ Quiet
  \/ \E t \in Caller, h \in Handles, k \in MapRequests : eina_file_map_new(t, h, k[1], k[2]) /\ Quiet
  \/ \E t \in Caller, h \in Handles : \E a \in HeldAddrs(h) : eina_file_map_free(t, h, a) /\ Quiet
  \/ \E t \in Caller, a \in FaultAddrs : eina_file_mmap_faulty(t, a, PageSize) /\ Quiet
  \/ \E p \in Paths : Modify(p) /\ Quiet

Spec == Init /\ [][Next]_vars

\* The calls made one after the other: each call runs to its end before the
\* next one starts.
NextSeq ==
  \/ \E t \in Caller, p \in Paths : eina_file_open(t, p) /\ Quiet
  \/ \E t \in Caller, h \in Handles : eina_file_close(t, h) /\ Quiet
  \/ \E t \in Caller, h \in Handles : eina_file_map_all(t, h) /\ Quiet
  \/ \E t \in Caller, h \in Handles, k \in MapRequests : eina_file_map_new(t, h, k[1], k[2]) /\ Quiet
  \/ \E t \in Caller, h \in Handles : \E a \in HeldAddrs(h) : eina_file_map_free(t, h, a) /\ Quiet
  \/ \E t \in Caller, a \in FaultAddrs : eina_file_mmap_faulty(t, a, PageSize) /\ Quiet
  \/ \E p \in Paths : Modify(p) /\ Quiet

SpecSeq == Init /\ [][NextSeq]_vars

\* ------------------------------------------------- addresses given back
\* SpecWild makes the calls of SpecSeq on files that do not change and
\* without faults, and adds eina_file_map_free with an address the caller
\* does not hold: NULL, MAP_FAILED, or an address that is not, or is no
\* longer, his.
FreeAddrs == {NULL, PageSize, 2 * PageSize, MAP_FAILED}

WildFree ==
  \E t \in Caller, h \in Handles : \E a \in FreeAddrs \ HeldAddrs(h) :
    /\ file[h].global_refcount >= 0
    /\ eina_file_map_free(t, h, a)
    /\ Quiet

NextWild ==
  \/ \E t \in Caller, p \in Paths : eina_file_open(t, p) /\ Quiet
  \/ \E t \in Caller, h \in Handles : eina_file_close(t, h) /\ Quiet
  \/ \E t \in Caller, h \in Handles : eina_file_map_all(t, h) /\ Quiet
  \/ \E t \in Caller, h \in Handles, k \in MapRequests : eina_file_map_new(t, h, k[1], k[2]) /\ Quiet
  \/ \E t \in Caller, h \in Handles : \E a \in HeldAddrs(h) : eina_file_map_free(t, h, a) /\ Quiet
  \/ WildFree

SpecWild == Init /\ [][NextWild]_vars

\* ------------------------------------------------------ the line iterators
\* What eina_file_map_free(file, addr) leaves of the handle f and of the
\* mapped pages M (lines 1355-1381).
MapFreeResults(f, M, addr) ==
  IF f.global_map = addr
  THEN {GlobalUnref(f, M)}
  ELSE IF RmapFind(f, addr) = {}
       THEN {[f |-> f, mapped |-> M]}
       ELSE {WindowUnref(f, M, em) : em \in RmapFind(f, addr)}

\* An iterator that takes no reference to the handle.
map_lines_without_reference(t, h, i) ==
  /\ Idle(t)
  /\ Holds(h)
  /\ lines[i] = NoIter
  /\ file[h].global_refcount < MaxRef
  /\ IF Length(file, h) = 0
     THEN UNCHANGED <<file, mapped, lines>>
     ELSE \E a \in (IF file[h].global_map = MAP_FAILED
                    THEN mmap(mapped, Length(file, h), 0)
                    ELSE {file[h].global_map}) :
            IF a = MAP_FAILED
            THEN UNCHANGED <<file, mapped, lines>>
            ELSE /\ file' = [file EXCEPT ![h].global_map = a,
                                         ![h].global_refcount = @ + 1]
                 /\ mapped' = mapped \cup PagesOf(a, Length(file, h))
                 /\ lines' = [lines EXCEPT ![i] = [fp |-> h, map |-> a]]
  /\ UNCHANGED <<disk, cache, pc, loc, held, uaf, ndestroy, nfd, outstanding>>

\* eina_file_map_lines(file), lines 1231-1270: nothing for an empty file or
\* when eina_file_map_all fails (lines 1240-1250); else the iterator owns the
\* reference eina_file_map_all took and one reference to the handle
\* (lines 1252-1254).
eina_file_map_lines(t, h, i) ==
  /\ Idle(t)
  /\ Holds(h)
  /\ lines[i] = NoIter
  /\ file[h].global_refcount < MaxRef
  /\ IF Length(file, h) = 0
     THEN UNCHANGED <<file, mapped, lines>>
     ELSE \E a \in (IF file[h].global_map = MAP_FAILED
                    THEN mmap(mapped, Length(file, h), 0)
                    ELSE {file[h].global_map}) :
            IF a = MAP_FAILED
            THEN UNCHANGED <<file, mapped, lines>>
            ELSE /\ file' = [file EXCEPT ![h].global_map = a,
                                         ![h].global_refcount = @ + 1,
                                         ![h].refcount = @ + 1]
                 /\ mapped' = mapped \cup PagesOf(a, Length(file, h))
                 /\ lines' = [lines EXCEPT ![i] = [fp |-> h, map |-> a]]
  /\ UNCHANGED <<disk, cache, pc, loc, held, uaf, ndestroy, nfd, outstanding>>

\* _eina_file_map_lines_iterator_free(it), lines 1221-1229:
\* eina_file_map_free(it->fp, it->map), then eina_file_close(it->fp).  On a
\* handle that was destroyed both touch freed memory.
_eina_file_map_lines_iterator_free(t, i) ==
  /\ Idle(t)
  /\ lines[i] # NoIter
  /\ lines' = [lines EXCEPT ![i] = NoIter]
  /\ LET h == lines[i].fp
     IN IF file[h].st # "live"
        THEN /\ uaf' = TRUE
             /\ UNCHANGED <<cache, file, mapped, ndestroy, nfd, outstanding>>
        ELSE \E r \in MapFreeResults(file[h], mapped, lines[i].map) :
               LET F1 == [file EXCEPT ![h] = [r.f EXCEPT !.refcount = @ - 1]]
                   rc == _eina_file_real_close(F1, r.mapped, h)
               IN /\ uaf' = uaf
                  /\ IF F1[h].refcount # 0
                     THEN /\ file' = F1
                          /\ mapped' = r.mapped
                          /\ UNCHANGED <<cache, ndestroy, nfd, outstanding>>
                     ELSE /\ cache' = eina_hash_del(cache, F1, F1[h].filename, h)
                          /\ file' = rc.file
                          /\ mapped' = rc.mapped
                          /\ nfd' = IF rc.destroyed THEN nfd - 1 ELSE nfd
                          /\ ndestroy' = IF rc.destroyed
                                         THEN [ndestroy EXCEPT ![h] = @ + 1]
                                         ELSE ndestroy
                          /\ outstanding' = IF rc.destroyed
                                            THEN [outstanding EXCEPT ![h] = NoneOutstanding]
                                            ELSE outstanding
  /\ UNCHANGED <<disk, pc, loc, held>>

\* SpecIter makes the calls of SpecSeq without faults, and creates and
\* disposes of line iterators.
Apart == UNCHANGED <<lockvars, rq, lastcall, linevars, sidevars>>

NextIter ==
  \/ \E t \in Caller, p \in Paths : eina_file_open(t, p) /\ Quiet
  \/ \E t \in Caller, h \in Handles : eina_file_close(t, h) /\ Quiet
  \/ \E t \in Caller, h \in Handles : eina_file_map_all(t, h) /\ Quiet
  \/ \E t \in Caller, h \in Handles, k \in MapRequests : eina_file_map_new(t, h, k[1], k[2]) /\ Quiet
  \/ \E t \in Caller, h \in Handles : \E a \in HeldAddrs(h) : eina_file_map_free(t, h, a) /\ Quiet
  \/ \E p \in Paths : Modify(p) /\ Quiet
  \/ \E t \in Caller, h \in Handles, i \in LineIterators : eina_file_map_lines(t, h, i) /\ Apart
  \/ \E t \in Caller, i \in LineIterators : _eina_file_map_lines_iterator_free(t, i) /\ Apart

SpecIter == Init /\ [][NextIter]_vars

\* --------------------------------------- line iterators of several threads
\* SpecPar lets each thread create and dispose of its own line iterator while
\* the others do the same: a call is the sequence of its critical sections,
\* and between two of them the other threads run.  The callers close their
\* own references while no iterator is being created or disposed of, so that
\* the only closes that meet are those of the iterators.
IterOf(t) == IF t = "t1" THEN "it1" ELSE "it2"

\* The threads that are inside eina_file_map_lines(h), each with a reference
\* of the callers.
InMapLines(h) ==
  Cardinality({u \in Threads : pc[u] = "lines_ref" /\ loc[u].f = h})

\* Lines 1240-1250: eina_file_map_all(file), under the lock of the file.
eina_file_map_lines_map(t, h) ==
  /\ Idle(t)
  /\ held[h] > InMapLines(h) /\ file[h].st = "live"
  /\ lines[IterOf(t)] = NoIter
  /\ file[h].global_refcount < MaxRef
  /\ Length(file, h) # 0
  /\ MapAllLocked(h)
  /\ IF file'[h].global_map = MAP_FAILED
     THEN UNCHANGED <<pc, loc>>
     ELSE /\ pc' = [pc EXCEPT ![t] = "lines_ref"]
          /\ loc' = [loc EXCEPT ![t] = [NoLoc EXCEPT !.f = h]]
  /\ UNCHANGED <<disk, cache, held, uaf, ndestroy, nfd, outstanding, lines>>

\* Lines 1252-1256: file->refcount++ under the lock of the file, and the
\* iterator filled in.
eina_file_map_lines_ref(t) ==
  /\ ~uaf
  /\ pc[t] = "lines_ref"
  /\ LET h == loc[t].f
     IN /\ file' = [file EXCEPT ![h].refcount = @ + 1]
        /\ lines' = [lines EXCEPT ![IterOf(t)] = [fp |-> h, map |-> file[h].global_map]]
  /\ pc' = [pc EXCEPT ![t] = "idle"]
  /\ loc' = [loc EXCEPT ![t] = NoLoc]
  /\ UNCHANGED <<disk, cache, mapped, held, uaf, ndestroy, nfd, outstanding>>

\* Line 1224: eina_file_map_free(it->fp, it->map), under the lock of the
\* file.  On a handle that was destroyed it touches freed memory.
_eina_file_map_lines_iterator_free_unmap(t) ==
  /\ Idle(t)
  /\ lines[IterOf(t)] # NoIter
  /\ lines' = [lines EXCEPT ![IterOf(t)] = NoIter]
  /\ LET h == lines[IterOf(t)].fp
     IN /\ loc' = [loc EXCEPT ![t] = [NoLoc EXCEPT !.f = h]]
        /\ IF file[h].st # "live"
           THEN uaf' = TRUE /\ UNCHANGED <<file, mapped>>
           ELSE /\ uaf' = uaf
                /\ \E r \in MapFreeResults(file[h], mapped, lines[IterOf(t)].map) :
                     /\ file' = [file EXCEPT ![h] = r.f]
                     /\ mapped' = r.mapped
  /\ pc' = [pc EXCEPT ![t] = "lines_unref"]
  /\ UNCHANGED <<disk, cache, held, ndestroy, nfd, outstanding>>

\* Line 1225, eina_file_close(it->fp), lines 1055-1057: the decrement under
\* the lock of the file.  The call goes on with eina_file_close_test.
_eina_file_map_lines_iterator_free_unref(t) ==
  /\ ~uaf
  /\ pc[t] = "lines_unref"
  /\ LET h == loc[t].f
     IN IF file[h].st # "live"
        THEN uaf' = TRUE /\ file' = file
        ELSE uaf' = uaf /\ file' = [file EXCEPT ![h].refcount = @ - 1]
  /\ pc' = [pc EXCEPT ![t] = "close_test"]
  /\ UNCHANGED <<disk, cache, mapped, loc, held, ndestroy, nfd, outstanding, lines>>

NextPar ==
  \/ \E t \in Threads, p \in Paths : eina_file_open(t, p) /\ Quiet
  \/ \E t \in Threads, h \in Handles :
       (\A u \in Threads : pc[u] = "idle") /\ eina_file_close(t, h) /\ Quiet
  \/ \E t \in Threads : eina_file_close_test(t) /\ Quiet
  \/ \E t \in Threads : eina_file_close_del(t) /\ Quiet
  \/ \E t \in Threads, h \in Handles : eina_file_map_lines_map(t, h) /\ Apart
  \/ \E t \in Threads : eina_file_map_lines_ref(t) /\ Apart
  \/ \E t \in Threads : _eina_file_map_lines_iterator_free_unmap(t) /\ Apart
  \/ \E t \in Threads : _eina_file_map_lines_iterator_free_unref(t) /\ Apart

SpecPar == Init /\ [][NextPar]_vars

\* ------------------------------------------------- the lines of a buffer
\* SpecLines creates one iterator on a buffer of 1 .. MaxLen bytes (there is
\* no iterator on an empty file, line 1240) and calls next on it any number
\* of times.  A byte is a line feed, a carriage return or something else.
Bytes == {"x", "LF", "CR"}

RECURSIVE Buffers(_)
Buffers(n) ==
  IF n = 0 THEN {<<>>}
  ELSE {Append(b, c) : b \in Buffers(n - 1), c \in Bytes}

\* Lines 1256-1262: the iterator eina_file_map_lines returns.
InitLines ==
  /\ FileInit
  /\ LockInit
  /\ rq = NoRequest
  /\ lastcall = "other"
  /\ SideInit
  /\ lines = [i \in LineIterators |-> NoIter]
  /\ buf \in UNION {Buffers(n) : n \in 1 .. MaxLen}
  /\ it = [start |-> 0, end |-> 0, length |-> 0, index |-> 0,
           boundary |-> EolChunk, ret |-> "init"]
  /\ spans = <<>>

\* The byte at offset i of the buffer B.
At(B, i) == B[i + 1]

\* memchr(start, c, chunk) on B: the offset of the first c in
\* [start, start + chunk), or -1.
memchr(B, start, c, chunk) ==
  LET hits == {i \in start .. start + chunk - 1 : At(B, i) = c}
  IN IF hits = {} THEN -1 ELSE CHOOSE i \in hits : \A j \in hits : i <= j

\* _eina_fine_eol(start, boundary, end), lines 1150-1176.
RECURSIVE _eina_fine_eol(_, _, _, _)
_eina_fine_eol(B, start, boundary, end) ==
  IF start < end
  THEN LET chunk == IF start + boundary < end THEN boundary ELSE end - start
           cr == memchr(B, start, "CR", chunk)
           lf == memchr(B, start, "LF", chunk)
       IN IF cr # -1
          THEN IF lf # -1 /\ lf < cr THEN lf + 1 ELSE cr + 1
          ELSE IF lf # -1 THEN lf + 1
               ELSE _eina_fine_eol(B, start + chunk, EolChunk, end)
  ELSE end

\* What reading the byte right after the buffer can do: the mapping ends with
\* the page the last byte is in, so the byte is there unless the buffer fills
\* its pages, and then it is in whatever follows the mapping, or nowhere.
PastEnd(B) ==
  IF Len(B) % PageSize = 0 THEN {"byte", "fault"} ELSE {"byte"}

\* The loop of lines 1187-1193 from offset e: the test reads the byte at e
\* before it compares e with the end.  past is what that read does at the end
\* of the buffer.
RECURSIVE SkipEol(_, _, _, _, _)
SkipEol(B, e, index, match, past) ==
  IF e >= Len(B)
  THEN [end |-> e, index |-> index, fault |-> past = "fault"]
  ELSE IF At(B, e) \in {"LF", "CR"}
       THEN SkipEol(B, e + 1, IF match = At(B, e) THEN index + 1 ELSE index,
                    match, past)
       ELSE [end |-> e, index |-> index, fault |-> FALSE]

\* The last offset the test of line 1188 reads when the loop starts at e: it
\* reads the byte before it compares e with the end.
RECURSIVE SkipReads(_, _)
SkipReads(B, e) ==
  IF e >= Len(B) THEN e
  ELSE IF At(B, e) \in {"LF", "CR"} THEN SkipReads(B, e + 1) ELSE e

\* The last offset the calls of memchr in _eina_fine_eol read at most (lines
\* 1159-1161): each call is given the chunk bytes from start on.
RECURSIVE EolReads(_, _, _, _)
EolReads(B, start, boundary, end) ==
  IF start < end
  THEN LET chunk == IF start + boundary < end THEN boundary ELSE end - start
       IN IF memchr(B, start, "CR", chunk) # -1 \/ memchr(B, start, "LF", chunk) # -1
          THEN start + chunk - 1
          ELSE EolReads(B, start + chunk, EolChunk, end)
  ELSE start - 1

\* _eina_file_map_lines_iterator_next(it, data), lines 1178-1213.
_eina_file_map_lines_iterator_next ==
  /\ it.ret # "fault"
  /\ Len(buf) > 0
  /\ IF it.end >= Len(buf)
     THEN /\ it' = [it EXCEPT !.ret = "none"]
          /\ spans' = spans
     ELSE \E past \in PastEnd(buf) :
            LET sk == SkipEol(buf, it.end, it.index, At(buf, it.end), past)
                eol == _eina_fine_eol(buf, sk.end, it.boundary, Len(buf))
            IN IF sk.fault
               THEN /\ it' = [it EXCEPT !.ret = "fault"]
                    /\ spans' = spans
               ELSE IF sk.end = Len(buf)
               THEN /\ it' = [it EXCEPT !.end = sk.end, !.index = sk.index + 1,
                                        !.ret = "none"]
                    /\ spans' = spans
               ELSE /\ it' = [start |-> sk.end, end |-> eol,
                              length |-> eol - sk.end - 1,
                              index |-> sk.index + 1,
                              boundary |-> IF eol % EolAlign = 0 THEN EolChunk
                                           ELSE eol % EolAlign,
                              ret |-> "span"]
                    /\ spans' = Append(spans, <<sk.end, eol - sk.end - 1>>)
  /\ UNCHANGED <<buf, filevars, lockvars, rq, lastcall, lines, sidevars>>

NextLines == _eina_file_map_lines_iterator_next

SpecLines == InitLines /\ [][NextLines]_vars

\* ------------------------------------------------------ calls that fail
\* SpecFail makes the calls of SpecSeq without faults, eina_file_map_new also
\* with requests that cannot be granted, and remembers in lastcall whether the call that just
\* returned was an eina_file_open or an eina_file_map_new that returned NULL.
\* A call returned a handle, or an address, when the caller holds one more.
FailRequests == MapRequests \cup {<<0, 0>>, <<1, 1>>, <<PageSize + 1, 1>>}

OpenReturned == \E g \in Handles : held'[g] = held[g] + 1

MapNewReturned(h) ==
  \/ outstanding'[h] # outstanding[h]
  \/ file'[h].global_refcount = file[h].global_refcount + 1

Others == lastcall' = "other" /\ UNCHANGED <<lockvars, rq, lines, linevars, sidevars>>

NextFail ==
  \/ \E t \in Caller, p \in Paths :
       /\ eina_file_open(t, p)
       /\ lastcall' = IF OpenReturned THEN "other" ELSE "open_failed"
       /\ UNCHANGED <<lockvars, rq, lines, linevars, sidevars>>
  \/ \E t \in Caller, h \in Handles, k \in FailRequests :
       /\ eina_file_map_new(t, h, k[1], k[2])
       /\ lastcall' = IF MapNewReturned(h) THEN "other" ELSE "map_new_failed"
       /\ UNCHANGED <<lockvars, rq, lines, linevars, sidevars>>
  \/ \E t \in Caller, h \in Handles : eina_file_close(t, h) /\ Others
  \/ \E t \in Caller, h \in Handles : eina_file_map_all(t, h) /\ Others
  \/ \E t \in Caller, h \in Handles : \E a \in HeldAddrs(h) : eina_file_map_free(t, h, a) /\ Others
  \/ \E p \in Paths : Modify(p) /\ Others

SpecFail == Init /\ [][NextFail]_vars

\* ------------------------------------------------- faults in held mappings
\* SpecStale makes the calls of SpecSeq and remembers the address of a fault
\* for as long as no other call is made: a call of the handler that finds no
\* mapping changes nothing else.
Faulted(a) == [name |-> "fault", addr |-> a]

Unwatched ==
  fn' = NoCall /\ UNCHANGED <<lockvars, rq, lastcall, lines, linevars, shut, errlog>>

NextStale ==
  \/ \E t \in Caller, p \in Paths : eina_file_open(t, p) /\ Unwatched
  \/ \E t \in Caller, h \in Handles : eina_file_close(t, h) /\ Unwatched
  \/ \E t \in Caller, h \in Handles : eina_file_map_all(t, h) /\ Unwatched
  \/ \E t \in Caller, h \in Handles, k \in MapRequests :
       eina_file_map_new(t, h, k[1], k[2]) /\ Unwatched
  \/ \E t \in Caller, h \in Handles : \E a \in HeldAddrs(h) :
       eina_file_map_free(t, h, a) /\ Unwatched
  \/ \E t \in Caller, a \in FaultAddrs :
       /\ eina_file_mmap_faulty(t, a, PageSize)
       /\ fn' = Faulted(a)
       /\ UNCHANGED <<lockvars, rq, lastcall, lines, linevars, shut, errlog>>
  \/ \E p \in Paths : Modify(p) /\ Unwatched

SpecStale == Init /\ [][NextStale]_vars

\* ------------------------------------------------------ the end of the library
\* eina_hash_free(_eina_file_cache), line 622.  The cache is made with no
\* free callback (line 600): the table goes, the handles stay as they are.
eina_hash_free_cache(C, F, M) == [file |-> F, mapped |-> M, closed |-> 0]

\* A report that walks every handle still alive, in the cache or out of it.
still_open_every_handle(C, F, E) ==
  [p \in Paths |->
     E[p] + Cardinality({h \in Handles : F[h].st # "freed" /\ F[h].filename = p})]

\* The report of eina_file_shutdown, lines 610-620: one message for every
\* key of the cache.
still_open(C, F, E) ==
  [p \in Paths |-> E[p] + Cardinality({h \in C : F[h].filename = p})]

\* eina_file_shutdown(), lines 608-629: the report, then the cache is freed.
eina_file_shutdown ==
  /\ ~shut
  /\ \A t \in Threads : pc[t] = "idle"
  /\ shut' = TRUE
  /\ errlog' = still_open(cache, file, errlog)
  /\ LET r == eina_hash_free_cache(cache, file, mapped)
     IN /\ file' = r.file
        /\ mapped' = r.mapped
        /\ nfd' = nfd - r.closed
  /\ cache' = {}
  /\ UNCHANGED <<disk, pc, loc, held, uaf, ndestroy, outstanding>>
  /\ UNCHANGED <<lockvars, rq, lastcall, lines, linevars, fn>>

\* SpecDown makes calls one after the other until the library is shut down.
NextDown ==
  \/ \E t \in Caller, p \in Paths : ~shut /\ eina_file_open(t, p) /\ Quiet
  \/ \E t \in Caller, h \in Handles : ~shut /\ eina_file_close(t, h) /\ Quiet
  \/ \E t \in Caller, h \in Handles : ~shut /\ eina_file_map_all(t, h) /\ Quiet
  \/ \E t \in Caller, h \in Handles, k \in MapRequests :
       ~shut /\ eina_file_map_new(t, h, k[1], k[2]) /\ Quiet
  \/ \E p \in Paths : ~shut /\ Modify(p) /\ Quiet
  \/ eina_file_shutdown

SpecDown == Init /\ [][NextDown]_vars

\* ------------------------------------------------------------- the locking
\* SpecLock follows the lock operations and the system calls of every call,
\* in the order the code makes them, for any number of calls by the threads.
\* A call is the sequence of its operations; which branch a call takes is
\* any branch, whatever the tables hold.
Ins(op, f) == [op |-> op, f |-> f]

take_cache == Ins("take_cache", NoFile)
release_cache == Ins("release_cache", NoFile)
take(f) == Ins("take_file", f)
release(f) == Ins("release_file", f)
sys(call) == Ins(call, NoFile)

SysCalls == {"open", "fstat", "close", "mmap", "munmap"}

\* Lines 381-395: nothing while references remain, else the mappings are
\* removed and the descriptor is closed.
_eina_file_real_close_locks(destroy) ==
  IF destroy THEN <<sys("munmap"), sys("close")>> ELSE <<>>

\* The ways through eina_file_open (lines 943-1048).
OpenBranches ==
  {"open_fails", "fstat_fails", "malloc_fails", "evict_malloc_fails",
   "new", "evict_new", "evict_destroy_new", "reuse"}

\* An open that leaves through on_error with the cache lock when malloc fails.
open_locks_kept_when_malloc_fails(n, branch) ==
  LET before == <<sys("open"), sys("fstat"), take_cache>>
      ref == <<take(n), release(n), release_cache>>
  IN CASE branch = "open_fails" -> <<sys("open")>>
       [] branch = "fstat_fails" -> <<sys("open"), sys("fstat"), sys("close")>>
       [] branch = "malloc_fails" -> before \o <<sys("close")>>
       [] branch = "evict_malloc_fails" ->
            before \o _eina_file_real_close_locks(TRUE) \o <<sys("close")>>
       [] branch = "new" -> before \o ref
       [] branch = "evict_new" ->
            before \o _eina_file_real_close_locks(FALSE) \o ref
       [] branch = "evict_destroy_new" ->
            before \o _eina_file_real_close_locks(TRUE) \o ref
       [] OTHER -> before \o <<sys("close")>> \o ref

\* Lines 967-1047; n is the handle the call returns.
eina_file_open_locks(n, branch) ==
  LET before == <<sys("open"), sys("fstat"), take_cache>>
      ref == <<take(n), release(n), release_cache>>
  IN CASE branch = "open_fails" -> <<sys("open")>>
       [] branch = "fstat_fails" -> <<sys("open"), sys("fstat"), sys("close")>>
       [] branch = "malloc_fails" -> before \o <<release_cache, sys("close")>>
       [] branch = "evict_malloc_fails" ->
            before \o _eina_file_real_close_locks(TRUE)
                   \o <<release_cache, sys("close")>>
       [] branch = "new" -> before \o ref
       [] branch = "evict_new" ->
            before \o _eina_file_real_close_locks(FALSE) \o ref
       [] branch = "evict_destroy_new" ->
            before \o _eina_file_real_close_locks(TRUE) \o ref
       [] OTHER -> before \o <<sys("close")>> \o ref

\* A close that takes the cache lock before it gives the file lock back.
close_locks_cache_inside_file(f, last, destroy) ==
  <<take(f)>>
    \o (IF last
        THEN <<take_cache>> \o _eina_file_real_close_locks(destroy)
                            \o <<release_cache>>
        ELSE <<>>)
    \o <<release(f)>>

\* Lines 1050-1066; last: the test of line 1059 found no reference left.
eina_file_close_locks(f, last, destroy) ==
  <<take(f), release(f)>>
    \o (IF last
        THEN <<take_cache>> \o _eina_file_real_close_locks(destroy)
                            \o <<release_cache>>
        ELSE <<>>)

\* Lines 1106-1130; map: the whole file was not mapped yet.
eina_file_map_all_locks(f, map) ==
  <<take(f)>> \o (IF map THEN <<sys("mmap")>> ELSE <<>>) \o <<release(f)>>

\* Lines 1281-1345; the range checks return before the lock is taken.
eina_file_map_new_locks(f, inrange, map) ==
  IF inrange
  THEN <<take(f)>> \o (IF map THEN <<sys("mmap")>> ELSE <<>>) \o <<release(f)>>
  ELSE <<>>

\* Lines 1348-1385; unmap: the last reference to the mapping was given back.
eina_file_map_free_locks(f, unmap) ==
  <<take(f)>> \o (IF unmap THEN <<sys("munmap")>> ELSE <<>>) \o <<release(f)>>

\* Lines 1387-1411.
eina_file_map_faulted_locks(f) == <<take(f), release(f)>>

\* Lines 1231-1270: eina_file_map_all, then the reference of the iterator.
eina_file_map_lines_locks(f, map) ==
  eina_file_map_all_locks(f, map) \o <<take(f), release(f)>>

\* Lines 1221-1229.
_eina_file_map_lines_iterator_free_locks(f, unmap, last, destroy) ==
  eina_file_map_free_locks(f, unmap) \o eina_file_close_locks(f, last, destroy)

\* Lines 642-683: the handles of the cache are visited under the cache lock,
\* each under its own lock, until one has a hit.
RECURSIVE VisitLocks(_)
VisitLocks(n) ==
  IF n = 0 THEN <<>> ELSE VisitLocks(n - 1) \o <<take(n), release(n)>>

eina_file_mmap_faulty_locks(visited) ==
  <<take_cache>> \o VisitLocks(visited) \o <<release_cache>>

\* A thread that is in no call enters one.
Enter(t, prog) ==
  /\ lockprog[t] = <<>>
  /\ prog # <<>>
  /\ lockprog' = [lockprog EXCEPT ![t] = prog]
  /\ UNCHANGED <<cachelock, filelock, filevars, rq, lastcall, lines, linevars, sidevars>>

\* What thread t does next.
Todo(t, op) == lockprog[t] # <<>> /\ Head(lockprog[t]).op = op

Done(t) == lockprog' = [lockprog EXCEPT ![t] = Tail(lockprog[t])]

eina_lock_take_cache(t) ==
  /\ Todo(t, "take_cache")
  /\ cachelock = NoThread
  /\ cachelock' = t
  /\ Done(t)
  /\ UNCHANGED <<filelock, filevars, rq, lastcall, lines, linevars, sidevars>>

eina_lock_release_cache(t) ==
  /\ Todo(t, "release_cache")
  /\ cachelock' = NoThread
  /\ Done(t)
  /\ UNCHANGED <<filelock, filevars, rq, lastcall, lines, linevars, sidevars>>

eina_lock_take_file(t) ==
  /\ Todo(t, "take_file")
  /\ filelock[Head(lockprog[t]).f] = NoThread
  /\ filelock' = [filelock EXCEPT ![Head(lockprog[t]).f] = t]
  /\ Done(t)
  /\ UNCHANGED <<cachelock, filevars, rq, lastcall, lines, linevars, sidevars>>

eina_lock_release_file(t) ==
  /\ Todo(t, "release_file")
  /\ filelock' = [filelock EXCEPT ![Head(lockprog[t]).f] = NoThread]
  /\ Done(t)
  /\ UNCHANGED <<cachelock, filevars, rq, lastcall, lines, linevars, sidevars>>

SysCall(t) ==
  /\ lockprog[t] # <<>>
  /\ Head(lockprog[t]).op \in SysCalls
  /\ Done(t)
  /\ UNCHANGED <<cachelock, filelock, filevars, rq, lastcall, lines, linevars, sidevars>>

NextLock ==
  \/ \E t \in Threads, n \in Handles, b \in OpenBranches :
       Enter(t, eina_file_open_locks(n, b))
  \/ \E t \in Threads, f \in Handles, last, destroy \in BOOLEAN :
       Enter(t, eina_file_close_locks(f, last, destroy))
  \/ \E t \in Threads, f \in Handles, map \in BOOLEAN :
       Enter(t, eina_file_map_all_locks(f, map))
  \/ \E t \in Threads, f \in Handles, inrange, map \in BOOLEAN :
       Enter(t, eina_file_map_new_locks(f, inrange, map))
  \/ \E t \in Threads, f \in Handles, unmap \in BOOLEAN :
       Enter(t, eina_file_map_free_locks(f, unmap))
  \/ \E t \in Threads, f \in Handles :
       Enter(t, eina_file_map_faulted_locks(f))
  \/ \E t \in Threads, f \in Handles, map \in BOOLEAN :
       Enter(t, eina_file_map_lines_locks(f, map))
  \/ \E t \in Threads, f \in Handles, unmap, last, destroy \in BOOLEAN :
       Enter(t, _eina_file_map_lines_iterator_free_locks(f, unmap, last, destroy))
  \/ \E t \in Threads, n \in 0 .. MaxHandles :
       Enter(t, eina_file_mmap_faulty_locks(n))
  \/ \E t \in Threads : eina_lock_take_cache(t)
  \/ \E t \in Threads : eina_lock_release_cache(t)
  \/ \E t \in Threads : eina_lock_take_file(t)
  \/ \E t \in Threads : eina_lock_release_file(t)
  \/ \E t \in Threads : SysCall(t)

SpecLock == Init /\ [][NextLock]_vars

\* ------------------------------------------------------------ the paths
\* SpecPath calls eina_file_path_sanitize on a path, and then on what it
\* returned.  A C string is the sequence of its bytes; a buffer also holds the
\* terminating NUL and what is behind it; a pointer into a buffer is an offset.
NUL == "NUL"
PathChars == {"/", ".", "a"}
Strings(n) == UNION {[1 .. k -> PathChars] : k \in 0 .. n}
NoString == <<"null">>
NoPtr == 0 - 1
Cwds == {<<"/">>, <<"/", "c">>}

ByteAt(B, i) == B[i + 1]

\* The bytes of B from offset p up to the first NUL.
strlen(B, p) == CHOOSE n \in 0 .. Len(B) : ByteAt(B, p + n) = NUL /\ \A j \in 0 .. n - 1 : ByteAt(B, p + j) # NUL

CString(B) == SubSeq(B, 1, strlen(B, 0))

strchr(B, p, c) ==
  LET hits == {i \in p .. p + strlen(B, p) - 1 : ByteAt(B, i) = c}
  IN IF hits = {} THEN NoPtr ELSE CHOOSE i \in hits : \A j \in hits : i <= j

strrchr(B, c) ==
  LET hits == {i \in 0 .. strlen(B, 0) - 1 : ByteAt(B, i) = c}
  IN IF hits = {} THEN NoPtr ELSE CHOOSE i \in hits : \A j \in hits : i >= j

memmove(B, dst, src, n) ==
  [i \in 1 .. Len(B) |-> IF i - 1 >= dst /\ i - 1 < dst + n THEN B[i - dst + src] ELSE B[i]]

\* An access of n bytes at offset i that stays inside the buffer B.
Inside(B, i, n) == i >= 0 /\ n >= 0 /\ i + n <= Len(B)

\* Lines 516-567: the loop of _eina_file_escape on the buffer B, with p and q
\* where they are and len what it is.  bad: a byte outside the buffer was read
\* or written.
RECURSIVE escape_loop(_, _, _, _)
escape_loop(B, p, q, len) ==
  LET s == strchr(B, p, "/")
  IN IF s = NoPtr
     THEN [buf |-> B, len |-> len, bad |-> FALSE]
     ELSE IF ByteAt(B, s + 1) = "/"
     THEN LET l1 == len - 1
          IN IF Inside(B, s + 1, l1 - s) /\ Inside(B, l1, 1)
             THEN escape_loop([memmove(B, s, s + 1, l1 - s) EXCEPT ![l1 + 1] = NUL], s, q, l1)
             ELSE [buf |-> B, len |-> l1, bad |-> TRUE]
     ELSE IF ByteAt(B, s + 1) = "." /\ ByteAt(B, s + 2) = "."
     THEN IF ByteAt(B, s + 3) = "/"
          THEN LET l1 == len - (s + 3 - q)
                   B2 == [memmove(B, q, s + 3, l1 - q) EXCEPT ![l1 + 1] = NUL]
                   r == strrchr([B2 EXCEPT ![q + 1] = NUL], "/")
               IN IF Inside(B, s + 3, l1 - q) /\ Inside(B, l1, 1)
                  THEN escape_loop(B2, q, IF r = NoPtr THEN 0 ELSE r, l1)
                  ELSE [buf |-> B, len |-> l1, bad |-> TRUE]
          ELSE IF ByteAt(B, s + 3) = NUL
          THEN LET l1 == len - (s + 2 - q)
               IN IF Inside(B, l1, 1)
                  THEN escape_loop([B EXCEPT ![l1 + 1] = NUL], s + 1, s, l1)
                  ELSE [buf |-> B, len |-> l1, bad |-> TRUE]
          ELSE escape_loop(B, s + 1, s, len)
     ELSE escape_loop(B, s + 1, s, len)

\* _eina_file_escape(path, &length), lines 501-573: the string returned, or
\* NoString when strdup fails.
_eina_file_escape(path, length, strdup_ok) ==
  IF ~strdup_ok
  THEN [ret |-> NoString, bad |-> FALSE]
  ELSE LET r == escape_loop(path \o <<NUL>>, 0, 0, length)
       IN [ret |-> CString(r.buf), bad |-> r.bad]

\* slprintf(str, size, "%s/%s", a, b), lines 488-499: what fits in size bytes
\* with the terminating NUL.
slprintf(size, a, b) == SubSeq(a \o <<"/">> \o b, 1, size - 1)

\* The working directory put before every path, absolute or not.
sanitize_prepends_cwd_always(path, cwd, strdup_ok) ==
  IF path = NoString \/ cwd = NoString
  THEN [ret |-> NoString, bad |-> FALSE]
  ELSE LET len == Len(path) + Len(cwd) + 2
       IN _eina_file_escape(slprintf(len, cwd, path), len, strdup_ok)

\* eina_file_path_sanitize(path), lines 690-717, when getcwd gives cwd, or
\* fails (NoString).
eina_file_path_sanitize(path, cwd, strdup_ok) ==
  IF path = NoString
  THEN [ret |-> NoString, bad |-> FALSE]
  ELSE IF path = <<>> \/ path[1] # "/"
  THEN IF cwd = NoString
       THEN [ret |-> NoString, bad |-> FALSE]
       ELSE LET len == Len(path) + Len(cwd) + 2
            IN _eina_file_escape(slprintf(len, cwd, path), len, strdup_ok)
  ELSE _eina_file_escape(path, Len(path), strdup_ok)

PathCalls ==
  [name : {"sanitize"}, path : Strings(MaxPath) \cup {NoString}, cwd : Cwds \cup {NoString},
   strdup_ok : BOOLEAN, calls : {0}, ret : {NoString}, again : {NoString}, bad : {FALSE}]

InitPath ==
  /\ FileInit
  /\ LockInit
  /\ rq = NoRequest
  /\ lastcall = "other"
  /\ lines = [i \in LineIterators |-> NoIter]
  /\ NoLines
  /\ shut = FALSE
  /\ errlog = [p \in Paths |-> 0]
  /\ fn \in PathCalls

\* The first call, on the path.
Sanitize ==
  /\ fn.calls = 0
  /\ LET r == eina_file_path_sanitize(fn.path, fn.cwd, fn.strdup_ok)
     IN fn' = [fn EXCEPT !.calls = 1, !.ret = r.ret, !.bad = r.bad]
  /\ UNCHANGED <<filevars, lockvars, rq, lastcall, lines, linevars, shut, errlog>>

\* The second call, on the string the first one returned.
SanitizeAgain ==
  /\ fn.calls = 1
  /\ fn.ret # NoString
  /\ LET r == eina_file_path_sanitize(fn.ret, fn.cwd, TRUE)
     IN fn' = [fn EXCEPT !.calls = 2, !.again = r.ret, !.bad = r.bad]
  /\ UNCHANGED <<filevars, lockvars, rq, lastcall, lines, linevars, shut, errlog>>

NextPath == Sanitize \/ SanitizeAgain
SpecPath == InitPath /\ [][NextPath]_vars

\* ----------------------------------------------------- the parts of a path
\* SpecSplit calls eina_file_split on a path.  The array holds pointers into
\* the buffer of the caller, in which the function writes.
NoArray == <<NoString>>

\* The string that starts at offset p of the buffer B.
StringAt(B, p) == SubSeq(B, p + 1, p + strlen(B, p))

\* eina_array_push(array, data), with room in the array.
eina_array_push(ea, data) == Append(ea, data)

\* Lines 765-776: the loop of eina_file_split.
RECURSIVE split_loop(_, _, _)
split_loop(B, path, ea) ==
  LET current == strchr(B, path, "/")
  IN IF current = NoPtr
     THEN [buf |-> B, path |-> path, ea |-> ea]
     ELSE IF current - path <= 0
     THEN split_loop(B, current + 1, ea)
     ELSE split_loop([B EXCEPT ![current + 1] = NUL], current + 1,
                     eina_array_push(ea, path))

\* What is after the last separator is left out.
split_without_the_rest(path, array_ok) ==
  IF path = NoString \/ ~array_ok
  THEN NoArray
  ELSE LET r == split_loop(path \o <<NUL>>, 0, <<>>)
       IN [i \in 1 .. Len(r.ea) |-> StringAt(r.buf, r.ea[i])]

\* eina_file_split(path), lines 751-782: the strings the array points to when
\* the call returns, or NoArray for a null path and when eina_array_new fails.
eina_file_split(path, array_ok) ==
  IF path = NoString \/ ~array_ok
  THEN NoArray
  ELSE LET r == split_loop(path \o <<NUL>>, 0, <<>>)
           ea == IF ByteAt(r.buf, r.path) # NUL
                 THEN eina_array_push(r.ea, r.path) ELSE r.ea
       IN [i \in 1 .. Len(ea) |-> StringAt(r.buf, ea[i])]

InitSplit ==
  /\ FileInit
  /\ LockInit
  /\ rq = NoRequest
  /\ lastcall = "other"
  /\ lines = [i \in LineIterators |-> NoIter]
  /\ NoLines
  /\ shut = FALSE
  /\ errlog = [p \in Paths |-> 0]
  /\ fn \in [name : {"split"}, path : Strings(MaxPath) \cup {NoString},
             array_ok : BOOLEAN, done : {FALSE}, ret : {NoArray}]

Split ==
  /\ ~fn.done
  /\ fn' = [fn EXCEPT !.done = TRUE, !.ret = eina_file_split(fn.path, fn.array_ok)]
  /\ UNCHANGED <<filevars, lockvars, rq, lastcall, lines, linevars, shut, errlog>>

NextSplit == Split
SpecSplit == InitSplit /\ [][NextSplit]_vars

\* ------------------------------------------------------- the directories
\* SpecList calls eina_file_dir_list on a directory tree: the directory at
\* level 0 is the one the caller names, and the directory at level i may hold
\* a file and, as its one subdirectory, the directory at level i + 1.  Every
\* directory holds "." and "..".  readdir gives the entries of a directory in
\* any order.
Levels == 0 .. MaxDepth
SubLevels == 1 .. MaxDepth

\* What the directory at level i is for its parent: absent, a directory, an
\* entry of another type (a link to a directory), or a directory that
\* opendir cannot open.
SubKinds == {"none", "dir", "other", "locked"}
DirArgs == {"null", "empty", "missing", "top"}

Entry(i, kind) == [level |-> i, kind |-> kind]
AllEntries == {Entry(i, k) : i \in Levels, k \in {"dot", "dotdot", "file", "sub"}}

\* The entries readdir gives for the directory at level i of the tree T.
EntriesOf(T, i) ==
  {Entry(i, "dot"), Entry(i, "dotdot")}
    \cup (IF T.file[i] THEN {Entry(i, "file")} ELSE {})
    \cup (IF i < MaxDepth /\ T.sub[i + 1] # "none" THEN {Entry(i, "sub")} ELSE {})

\* Lines 311-343 and 364-377: info.type of the entry e when
\* _eina_file_stat_ls_iterator_next returns it.
InfoType(T, e) ==
  IF e.kind = "sub" /\ T.sub[e.level + 1] \in {"dir", "locked"}
  THEN "EINA_FILE_DIR" ELSE "EINA_FILE_OTHER"

\* Lines 887-935: eina_file_stat_ls gives an iterator when opendir succeeds.
CanOpen(T, i) == IF i = 0 THEN T.dir = "top" ELSE T.sub[i] = "dir"

Trees ==
  {T \in [dir : DirArgs, file : [Levels -> BOOLEAN], sub : [SubLevels -> SubKinds]] :
     /\ \A i \in SubLevels : T.sub[i] = "none" => ~T.file[i]
     /\ \A i \in SubLevels \ {MaxDepth} : T.sub[i] = "none" => T.sub[i + 1] = "none"}

InitList ==
  /\ FileInit
  /\ LockInit
  /\ rq = NoRequest
  /\ lastcall = "other"
  /\ lines = [i \in LineIterators |-> NoIter]
  /\ NoLines
  /\ shut = FALSE
  /\ errlog = [p \in Paths |-> 0]
  /\ \E T \in Trees, cb \in BOOLEAN, recursive \in BOOLEAN :
       fn = [name |-> "dir_list", tree |-> T, cb |-> cb, recursive |-> recursive,
             stack |-> <<>>, calls |-> [e \in AllEntries |-> 0], ret |-> "none"]

ListFrame == UNCHANGED <<filevars, lockvars, rq, lastcall, lines, linevars, shut, errlog>>

\* Lines 728-734 of the call the caller makes: the three checks and
\* eina_file_stat_ls.
eina_file_dir_list_enter ==
  /\ fn.ret = "none" /\ fn.stack = <<>>
  /\ IF ~fn.cb \/ fn.tree.dir \in {"null", "empty"} \/ ~CanOpen(fn.tree, 0)
     THEN fn' = [fn EXCEPT !.ret = "EINA_FALSE"]
     ELSE fn' = [fn EXCEPT !.ret = "running",
                           !.stack = <<[level |-> 0, left |-> EntriesOf(fn.tree, 0)]>>]
  /\ ListFrame

\* The filter of the loop of lines 294-302.
IsDots(e) == e.kind \in {"dot", "dotdot"}

\* The filter left out.
dir_list_entry_with_dots(e) ==
  LET rest == [fn.stack EXCEPT ![Len(fn.stack)].left = @ \ {e}]
      sub == e.level + 1
  IN [fn EXCEPT
        !.calls[e] = @ + 1,
        !.stack = IF fn.recursive /\ InfoType(fn.tree, e) = "EINA_FILE_DIR"
                     /\ CanOpen(fn.tree, sub)
                  THEN Append(rest, [level |-> sub, left |-> EntriesOf(fn.tree, sub)])
                  ELSE rest]

\* One entry from readdir in the loop of lines 736-744: "." and ".." are
\* passed over (lines 294-302); for any other entry cb is called, and when
\* recursive is set and the entry is a directory, eina_file_dir_list is
\* called on it (its result is not looked at): it goes on with the entries
\* of the subdirectory when eina_file_stat_ls can open it.
dir_list_entry(e) ==
  LET rest == [fn.stack EXCEPT ![Len(fn.stack)].left = @ \ {e}]
      sub == e.level + 1
  IN IF IsDots(e)
     THEN [fn EXCEPT !.stack = rest]
     ELSE [fn EXCEPT
             !.calls[e] = @ + 1,
             !.stack = IF fn.recursive /\ InfoType(fn.tree, e) = "EINA_FILE_DIR"
                          /\ CanOpen(fn.tree, sub)
                       THEN Append(rest, [level |-> sub, left |-> EntriesOf(fn.tree, sub)])
                       ELSE rest]

eina_file_dir_list_next ==
  /\ fn.ret = "running"
  /\ \E e \in fn.stack[Len(fn.stack)].left : fn' = dir_list_entry(e)
  /\ ListFrame

\* Lines 746-748: no entry is left, the iterator is freed and the call
\* returns EINA_TRUE, to the call that made it or to the caller.
eina_file_dir_list_return ==
  /\ fn.ret = "running"
  /\ fn.stack[Len(fn.stack)].left = {}
  /\ fn' = [fn EXCEPT !.stack = SubSeq(@, 1, Len(@) - 1),
                      !.ret = IF Len(fn.stack) = 1 THEN "EINA_TRUE" ELSE @]
  /\ ListFrame

NextList ==
  \/ eina_file_dir_list_enter
  \/ eina_file_dir_list_next
  \/ eina_file_dir_list_return

SpecList == InitList /\ [][NextList]_vars

\* ------------------------------------------------ the identity of a file
\* _eina_file_timestamp_compare alone: a handle opened when fstat gave `old'
\* is compared with the fstat result `st' of a later open of the same path.
\* Two values for each field of struct stat that identifies a file.
Stats ==
  [st_dev : {1, 2}, st_ino : {1, 2}, st_size : {1, PageSize}, st_mtime : {1, 2},
   st_mtim_nsec : {0, 1}]

InitStat ==
  /\ FileInit
  /\ LockInit
  /\ rq = NoRequest
  /\ lastcall = "other"
  /\ lines = [i \in LineIterators |-> NoIter]
  /\ NoLines
  /\ shut = FALSE
  /\ errlog = [p \in Paths |-> 0]
  /\ fn \in [name : {"compare"}, old : Stats, st : Stats, done : {FALSE}, ret : {FALSE}]

\* Line 986-987 of eina_file_open: the handle found in the cache is reused
\* when the comparison returns EINA_TRUE.
TimestampCompare ==
  /\ ~fn.done
  /\ fn' = [fn EXCEPT !.done = TRUE,
                      !.ret = _eina_file_timestamp_compare(Stored(fn.old), fn.st)]
  /\ UNCHANGED <<filevars, lockvars, rq, lastcall, lines, linevars, shut, errlog>>

NextStat == TimestampCompare
SpecStat == InitStat /\ [][NextStat]_vars

\* ------------------------------------------------ the range of a window
\* SpecRange makes one call of eina_file_map_new(file, rule, offset, length)
\* on a handle that has no mapping yet, for every length of the file and
\* every offset and length an unsigned long can hold.
Requests ==
  [flen : Words, offset : Words, length : Words, done : {FALSE}, ret : {NULL}]

InitRange ==
  /\ LockInit
  /\ FileInit
  /\ lastcall = "other"
  /\ SideInit
  /\ lines = [i \in LineIterators |-> NoIter]
  /\ NoLines
  /\ rq \in Requests

\* Lines 1281-1345 with nothing mapped: NULL from the range checks, from
\* eina_file_map_all and from the on_error path, else the address mmap gave.
MapNewReturns(flen, offset, length) ==
  IF OutOfFile(offset, length, flen)
  THEN {NULL}
  ELSE {IF a = MAP_FAILED THEN NULL ELSE a : a \in mmap({}, length, offset)}

MapNewCall ==
  /\ ~rq.done
  /\ \E r \in MapNewReturns(rq.flen, rq.offset, rq.length) :
       rq' = [rq EXCEPT !.done = TRUE, !.ret = r]
  /\ UNCHANGED <<filevars, lockvars, lastcall, lines, linevars, sidevars>>

\* The caller gives the address back; the library is as before the call.
MapNewForget ==
  /\ rq.done
  /\ rq # NoRequest
  /\ rq' = NoRequest
  /\ UNCHANGED <<filevars, lockvars, lastcall, lines, linevars, sidevars>>

NextRange == MapNewCall \/ MapNewForget

SpecRange == InitRange /\ [][NextRange]_vars

\* ------------------------------------------------- what the calls return
\* SpecCalls makes the calls of SpecSeq on files that do not change and
\* without faults, and remembers the call that was just made: its name, its
\* arguments and what it returned.
\* Lines 1117-1130: eina_file_map_all returns the address of the whole-file
\* mapping when it took a reference, and NULL otherwise.
MapAllRet(h) ==
  IF file'[h].global_refcount = file[h].global_refcount + 1
  THEN file'[h].global_map ELSE NULL

\* Lines 1281-1287, 1339 and 1345: eina_file_map_new returns what
\* eina_file_map_all returns for the whole file, the address of the record
\* when it took a reference to one, and NULL otherwise.
MapNewRet(h, offset, length) ==
  IF OutOfFile(offset, length, Length(file, h)) THEN NULL
  ELSE IF offset = 0 /\ length = Length(file, h) THEN MapAllRet(h)
  ELSE IF outstanding'[h] # outstanding[h]
       THEN file'[h].map[<<offset, length>>].map ELSE NULL

Remembered(call) ==
  fn' = call /\ UNCHANGED <<lockvars, rq, lastcall, lines, linevars, shut, errlog>>

NextCalls ==
  \/ \E t \in Caller, p \in Paths :
       /\ eina_file_open(t, p)
       /\ Remembered([name |-> "open", path |-> p])
  \/ \E t \in Caller, h \in Handles :
       /\ eina_file_close(t, h)
       /\ Remembered([name |-> "close", h |-> h])
  \/ \E t \in Caller, h \in Handles :
       /\ eina_file_map_all(t, h)
       /\ Remembered([name |-> "map_all", h |-> h, ret |-> MapAllRet(h)])
  \/ \E t \in Caller, h \in Handles, k \in MapRequests :
       /\ eina_file_map_new(t, h, k[1], k[2])
       /\ Remembered([name |-> "map_new", h |-> h, offset |-> k[1],
                      length |-> k[2], ret |-> MapNewRet(h, k[1], k[2])])
  \/ \E t \in Caller, h \in Handles : \E a \in HeldAddrs(h) :
       /\ eina_file_map_free(t, h, a)
       /\ Remembered([name |-> "map_free", h |-> h, addr |-> a])

SpecCalls == Init /\ [][NextCalls]_vars

\* ------------------------------------------------- the close of a handle
\* SpecEvict opens, maps and closes files that change, one call after the
\* other, and remembers of a close which handle it was given, whether that
\* handle had been taken out of the cache as stale, and whether the
\* reference was its last.
Closed(h) ==
  [name |-> "close", h |-> h, stale |-> file[h].delete_me,
   final |-> file[h].refcount = 1]

NextEvict ==
  \/ \E t \in Caller, p \in Paths : eina_file_open(t, p) /\ Remembered(NoCall)
  \/ \E t \in Caller, h \in Handles : eina_file_close(t, h) /\ Remembered(Closed(h))
  \/ \E t \in Caller, h \in Handles : eina_file_map_all(t, h) /\ Remembered(NoCall)
  \/ \E t \in Caller, h \in Handles, k \in MapRequests :
       eina_file_map_new(t, h, k[1], k[2]) /\ Remembered(NoCall)
  \/ \E p \in Paths : Modify(p) /\ Remembered(NoCall)

SpecEvict == Init /\ [][NextEvict]_vars

\* ------------------------------------------- faults while files are closed
\* SpecReg lets the threads open, map as a whole and close files that change
\* while faults are reported: the calls of Spec that put handles in the cache,
\* take them out of it and walk it.  A handle is mapped by one holder at a
\* time, and the mapping goes with the handle.
NextReg ==
  \/ \E t \in Caller, p \in Paths : eina_file_open(t, p) /\ Quiet
  \/ \E t \in Caller, h \in Handles : eina_file_close_unref(t, h) /\ Quiet
  \/ \E t \in Threads : eina_file_close_test(t) /\ Quiet
  \/ \E t \in Threads : eina_file_close_del(t) /\ Quiet
  \/ \E t \in Caller, h \in Handles :
       file[h].global_refcount = 0 /\ eina_file_map_all(t, h) /\ Quiet
  \/ \E t \in Caller, a \in FaultAddrs : eina_file_mmap_faulty(t, a, PageSize) /\ Quiet
  \/ \E p \in Paths : Modify(p) /\ Quiet

SpecReg == Init /\ [][NextReg]_vars

\* ------------------------------------------------- faults inside the calls
\* SpecFault follows the locks as SpecLock does, for the calls that read
\* mapped memory and for the fault propagator started by such a read.  The
\* propagator runs in the signal handler of the thread that made the read:
\* its lock operations come before what is left of the interrupted call, and
\* the read is made again once it has returned.
touch == Ins("touch", NoFile)
handler_return == Ins("handler_return", NoFile)

\* Lines 1106-1129 and 1293-1337: under the lock of the file, after mmap,
\* the new mapping is read.  eina_file_map_new hashes the pointer found at
\* map->map to enter the record in file->rmap (line 1330), and
\* _eina_file_map_rule_apply (lines 1124 and 1335) reads every page of the
\* mapping for EINA_FILE_POPULATE in a build without MAP_POPULATE (lines
\* 426-440 and 459-462).
map_and_read_locks(f) == <<take(f), sys("mmap"), touch, release(f)>>

\* A caller reads memory it was given by eina_file_map_all or
\* eina_file_map_new, holding no lock.
caller_read_locks == <<touch>>

\* eina_file_mmap_faulty as the handler of a fault, lines 631-684.
on_fault_locks(visited) == eina_file_mmap_faulty_locks(visited) \o <<handler_return>>

\* The fault propagator runs on thread t and has not returned.
InHandler(t) ==
  \E i \in DOMAIN lockprog[t] : lockprog[t][i] = handler_return

\* The read is served.
TouchOk(t) ==
  /\ Todo(t, "touch")
  /\ Done(t)
  /\ UNCHANGED <<cachelock, filelock, filevars, rq, lastcall, lines, linevars, sidevars>>

\* The read faults (the file was truncated, the disk failed): the handler
\* is entered on the same thread with visited handles in the cache, and the
\* read is still to be made.
TouchFault(t, visited) ==
  /\ Todo(t, "touch")
  /\ ~InHandler(t)
  /\ lockprog' = [lockprog EXCEPT ![t] = on_fault_locks(visited) \o @]
  /\ UNCHANGED <<cachelock, filelock, filevars, rq, lastcall, lines, linevars, sidevars>>

HandlerReturn(t) ==
  /\ Todo(t, "handler_return")
  /\ Done(t)
  /\ UNCHANGED <<cachelock, filelock, filevars, rq, lastcall, lines, linevars, sidevars>>

\* A step of thread t inside a call.
Step(t) ==
  \/ eina_lock_take_cache(t)
  \/ eina_lock_release_cache(t)
  \/ eina_lock_take_file(t)
  \/ eina_lock_release_file(t)
  \/ SysCall(t)
  \/ TouchOk(t)
  \/ \E n \in 0 .. MaxHandles : TouchFault(t, n)
  \/ HandlerReturn(t)

NextFault ==
  \/ \E t \in Threads, f \in Handles : Enter(t, map_and_read_locks(f))
  \/ \E t \in Threads : Enter(t, caller_read_locks)
  \/ \E t \in Threads, f \in Handles, final, destroy \in BOOLEAN :
       Enter(t, eina_file_close_locks(f, final, destroy))
  \/ \E t \in Threads : eina_lock_take_cache(t)
  \/ \E t \in Threads : eina_lock_release_cache(t)
  \/ \E t \in Threads : eina_lock_take_file(t)
  \/ \E t \in Threads : eina_lock_release_file(t)
  \/ \E t \in Threads : SysCall(t)
  \/ \E t \in Threads : TouchOk(t)
  \/ \E t \in Threads, n \in 0 .. MaxHandles : TouchFault(t, n)
  \/ \E t \in Threads : HandlerReturn(t)

\* The threads are scheduled, and a lock is handed over fairly: a thread that
\* can take a step again and again takes one.  A thread that waits for a lock
\* its own thread holds can take none.
SpecFault ==
  Init /\ [][NextFault]_vars /\ \A t \in Threads : SF_vars(Step(t))

\* ================================================================ the claims
\* The open calls of a step: the handles whose callers got one more reference.
Opened(g) == held'[g] = held[g] + 1

\* The parts of C1.
C1_OneEntry == \A f, g \in cache : file[f].filename = file[g].filename => f = g

C1_SameHandle ==
  \A g \in Handles :
    Opened(g) =>
      \A h \in Handles :
        (/\ file[h].st = "live"
         /\ held[h] > 0
         /\ file[h].filename = file'[g].filename
         /\ file[h].ver = disk[file[h].filename])
        => (g = h /\ file'[h].refcount = file[h].refcount + 1)

\* C1: with the calls made one after the other, an open of a path returns
\* the handle that is still open for that path and whose file was not modified
\* since, with one more reference on it, and the cache never has two entries
\* for one path.
C1_Dedup == [](C1_OneEntry) /\ [][C1_SameHandle]_vars

C1_Witness == \E h \in cache : file[h].refcount = 2 /\ held[h] = 2

Live(h) == file[h].st = "live"

\* The parts of C2.
Unmodified == \A p \in Paths : disk[p] = 1

\* C2: for any interleaving of the closes of threads that each hold a
\* reference to the same handle, the handle is destroyed exactly once, only
\* after its reference count reached zero and with no reference left to the
\* callers, and no thread reads or writes it after it was destroyed.  The
\* file is left as it was, so that no open takes a handle out of the cache.
C2_DestroyedOnce ==
  Unmodified =>
    /\ ~uaf
    /\ \A h \in Handles :
         /\ ndestroy[h] <= 1
         /\ (ndestroy[h] = 1) = (file[h].st = "freed")
         /\ (file[h].st = "freed" => held[h] = 0)

\* The parts of C3.
GlobalPages(h) == PagesOf(file[h].global_map, Length(file, h))

C3_Mapped ==
  \A h \in Handles :
    (Live(h) /\ file[h].global_refcount >= 1) =>
       (file[h].global_map # MAP_FAILED /\ GlobalPages(h) \subseteq mapped)

C3_Step ==
  \A h \in Handles :
    (Live(h) /\ file'[h].st = "live") =>
      LET rc == file[h].global_refcount
          rc1 == file'[h].global_refcount
          gm == file[h].global_map
          gm1 == file'[h].global_map
      IN /\ (rc1 = rc + 1 /\ rc >= 1) => (gm1 = gm /\ mapped' = mapped)
         /\ (rc1 = rc + 1 /\ rc = 0) =>
               /\ gm1 # MAP_FAILED
               /\ PagesOf(gm1, Length(file, h)) \cap mapped = {}
               /\ mapped' = mapped \cup PagesOf(gm1, Length(file, h))
         /\ (rc1 = rc - 1 /\ rc >= 2) => (gm1 = gm /\ mapped' = mapped)
         /\ (rc1 = rc - 1 /\ rc = 1) =>
               (gm1 = MAP_FAILED /\ mapped' = mapped \ GlobalPages(h))
         /\ (rc1 = rc /\ rc >= 1) => gm1 = gm

\* C3: with the calls made one after the other, the K-th eina_file_map_all in
\* a row on a handle returns the address the first one returned and maps
\* nothing new, the first one creates one mapping, and of the calls that give
\* the address back only the last one unmaps it.
C3_SharedWholeMap == [](C3_Mapped) /\ [][C3_Step]_vars

C3_Witness ==
  \E h \in Handles :
    Live(h) /\ file[h].global_refcount = 2 /\ GlobalPages(h) \subseteq mapped

\* The parts of C4.
C4_Counted ==
  \A h \in Handles : \A k \in WinKeys :
    Live(h) =>
      IF k \in file[h].fkeys
      THEN file[h].map[k].refcount = outstanding[h][k]
      ELSE outstanding[h][k] = 0

C4_SameAddress ==
  \A h \in Handles : \A k \in WinKeys :
    (Live(h) /\ k \in file[h].fkeys /\ outstanding'[h][k] = outstanding[h][k] + 1)
      => file'[h].map[k].map = file[h].map[k].map

\* C4: eina_file_map_new calls with the same (offset, length), not the whole
\* file, on one handle return the same address, and the reference count of
\* the record is the number of those calls less the number of
\* eina_file_map_free calls made with that address.
C4_WindowRefcount == [](C4_Counted) /\ [][C4_SameAddress]_vars

\* The parts of C5.
KeptPages(h) ==
  UNION {PagesOf(file[h].map[k].map, k[2]) :
           k \in {j \in file[h].fkeys : outstanding[h][j] > 0}}

C5_Pairing ==
  \A h \in Handles :
    Live(h) =>
      /\ \A k \in WinKeys : outstanding[h][k] > 0 => k \in file[h].fkeys
      /\ WindowPages(file[h]) = KeptPages(h)

C5_NoSecondMapping ==
  \A h \in Handles : \A k \in WinKeys :
    (Live(h) /\ outstanding[h][k] >= 1 /\ outstanding'[h][k] = outstanding[h][k] + 1)
      => mapped' = mapped

\* C5: when every eina_file_map_free of a window is paired with an earlier
\* eina_file_map_new of it, the window is mapped by the OS exactly while one
\* of those calls is still to be paired: one mapping is created by the first
\* call, none by the later ones, and it is destroyed with the last pairing.
C5_OneMappingPerWindow == [](C5_Pairing) /\ [][C5_NoSecondMapping]_vars

\* C6: the forward and the reverse table of a handle hold the same records,
\* every record of the forward table is found in the reverse table under the
\* address it is mapped at, and every record has a reference count of one or
\* more.
C6_TablesAgree ==
  \A h \in Handles :
    Live(h) =>
      /\ file[h].fkeys = file[h].rkeys
      /\ \A k \in file[h].fkeys :
           /\ file[h].map[k].refcount >= 1
           /\ k \in RmapFind(file[h], file[h].map[k].map)

\* The parts of C7.
C7_Evicts ==
  \A f \in cache : \A g \in Handles :
    (Opened(g) /\ file'[g].filename = file[f].filename
       /\ StatOf(file[f].ver) # StatOf(disk[file[f].filename]))
    => /\ f \notin cache'
       /\ g # f
       /\ file[g].st = "unalloc"
       /\ g \in cache'
       /\ file'[g].refcount = 1
       /\ file'[g].global_map = MAP_FAILED
       /\ file'[g].global_refcount = 0
       /\ file'[g].fkeys = {}
       /\ file'[g].rkeys = {}
       /\ file'[g].ver = disk[file[f].filename]
       /\ file'[f] = [file[f] EXCEPT !.delete_me = TRUE]
       /\ mapped' = mapped

C7_HeldIsValid ==
  \A h \in Handles :
    held[h] > 0 =>
      /\ Live(h)
      /\ file[h].refcount = held[h]
      /\ file[h].global_refcount >= 1 => GlobalPages(h) \subseteq mapped
      /\ WindowPages(file[h]) \subseteq mapped

C7_LastCloseDestroys ==
  \A h \in Handles :
    (held[h] = 1 /\ held'[h] = 0) =>
       (file'[h].st = "freed" /\ mapped' \cap (GlobalPages(h) \cup WindowPages(file[h])) = {})

\* C7: with the calls made one after the other, an open that finds in the
\* cache a handle whose identity differs from the file's takes it out of the
\* cache and returns a handle never used before, with one reference and no
\* mapping; the handle taken out changes in nothing but its delete_me mark,
\* every handle a caller holds is alive with its mappings mapped, and the
\* close of the last reference to a handle destroys it.
C7_StaleEviction ==
  [](C7_HeldIsValid) /\ [][C7_Evicts /\ C7_LastCloseDestroys]_vars

C7_Witness ==
  \E f, g \in Handles :
    /\ f # g
    /\ file[f].delete_me
    /\ f \notin cache
    /\ held[f] > 0
    /\ file[f].global_refcount >= 1
    /\ GlobalPages(f) \subseteq mapped
    /\ g \in cache
    /\ file[g].filename = file[f].filename
    /\ file[g].refcount = 1
\* The bytes [base, base + length) of a mapping hold addr.
InMapping(addr, base, length) ==
  base # MAP_FAILED /\ base <= addr /\ addr < base + length

InWholeFile(h, addr) ==
  Live(h) /\ InMapping(addr, file[h].global_map, Length(file, h))

InWindow(h, k, addr) ==
  Live(h) /\ k \in file[h].fkeys /\ InMapping(addr, file[h].map[k].map, k[2])

\* The mappings a step marks: 0 stands for the whole-file mapping of a handle.
GlobalMarked(h) == ~file[h].global_faulty /\ file'[h].global_faulty

WindowMarked(h, k) ==
  k \in file[h].fkeys /\ ~file[h].map[k].faulty /\ file'[h].map[k].faulty

\* The parts of C8.
C8_MarksWhatHoldsAddr ==
  \A t \in Threads, a \in FaultAddrs :
    eina_file_mmap_faulty(t, a, PageSize) =>
      /\ \A h \in Handles :
           /\ GlobalMarked(h) => InWholeFile(h, a)
           /\ (h \in cache /\ InWholeFile(h, a)) => file'[h].global_faulty
           /\ \A k \in WinKeys :
                /\ WindowMarked(h, k) => (InWindow(h, k, a) /\ ~InWholeFile(h, a))
                /\ (h \in cache /\ InWindow(h, k, a)) => file'[h].map[k].faulty
      /\ (\A h \in Handles :
            ~InWholeFile(h, a) /\ \A k \in WinKeys : ~InWindow(h, k, a)) => file' = file

\* C8: a call of the fault handler with an address marks the whole-file
\* mapping of a handle exactly when the address is one of its bytes, otherwise
\* a window exactly when the address is one of the window's bytes, and marks
\* nothing when the address is in no mapping.
C8_FaultRange == [][C8_MarksWhatHoldsAddr]_vars

\* The parts of C9.
Marked ==
  {<<h, 0>> : h \in {g \in Handles : GlobalMarked(g)}}
    \cup {m \in Handles \X WinKeys : WindowMarked(m[1], m[2])}

SetMarks(F) ==
  [h \in Handles |->
     [F[h] EXCEPT !.global_faulty = TRUE,
                  !.map = [k \in WinKeys |-> [F[h].map[k] EXCEPT !.faulty = TRUE]]]]

C9_OneMark ==
  \A t \in Threads, a \in FaultAddrs :
    eina_file_mmap_faulty(t, a, PageSize) =>
      /\ Cardinality(Marked) <= 1
      /\ \A m \in Marked :
           IF m[2] = 0 THEN InWholeFile(m[1], a) ELSE InWindow(m[1], m[2], a)
      /\ SetMarks(file') = SetMarks(file)
      /\ \A h \in Handles :
           /\ file[h].global_faulty => file'[h].global_faulty
           /\ \A k \in WinKeys : file[h].map[k].faulty => file'[h].map[k].faulty
      /\ UNCHANGED <<cache, mapped, held, outstanding>>

\* C9: one call of the fault handler marks at most one mapping, the one that
\* holds the address, and changes nothing else: no other fault mark of this or
\* another handle, no reference count, neither table, not the cache.
C9_FaultFrame == [][C9_OneMark]_vars

\* The parts of C10.
C10_GlobalStays ==
  \A h \in Handles :
    (/\ Live(h)
     /\ file[h].global_faulty
     /\ file[h].global_refcount >= 1
     /\ file'[h].st = "live"
     /\ file'[h].global_refcount >= 1)
    => (file'[h].global_faulty /\ file'[h].global_map = file[h].global_map)

C10_WindowStays ==
  \A h \in Handles : \A k \in WinKeys :
    (/\ Live(h)
     /\ k \in file[h].fkeys
     /\ file[h].map[k].faulty
     /\ file'[h].st = "live"
     /\ k \in file'[h].fkeys)
    => (file'[h].map[k].faulty /\ file'[h].map[k].map = file[h].map[k].map)

\* C10: with the calls made one after the other, a mapping that is marked
\* faulty stays marked as long as it is mapped: a call that shares it and a
\* call that gives back one of several references leave the mark.
C10_FaultyUntilUnmapped == [][C10_GlobalStays /\ C10_WindowStays]_vars

C10_Witness ==
  \E h \in Handles :
    /\ Live(h)
    /\ file[h].global_faulty
    /\ file[h].global_refcount = 2
    /\ \E k \in file[h].fkeys : file[h].map[k].faulty /\ file[h].map[k].refcount = 2

\* The parts of C11: what eina_file_map_faulted answers, right after a fault
\* was marked, for the address of the mapping that was marked.
C11_WholeFileAnswer ==
  \A h \in Handles :
    GlobalMarked(h) /\ file'[h].global_map # MAP_FAILED
      => eina_file_map_faulted(file'[h], file'[h].global_map)

C11_WindowAnswer ==
  \A h \in Handles, k \in WinKeys :
    WindowMarked(h, k)
      => eina_file_map_faulted(file'[h], file'[h].map[k].map)

\* C11: eina_file_map_faulted(file, a) answers with the faulty flag of the
\* mapping whose address is a: once eina_file_mmap_faulty has marked a window,
\* the answer for the address eina_file_map_new returned for it is true, and
\* once it has marked the whole-file mapping, the answer for the address
\* eina_file_map_all returned is true.
C11_IsFaulty == [][C11_WholeFileAnswer /\ C11_WindowAnswer]_vars

\* The parts of C12.
HoldsFileLock(t) == \E h \in Handles : filelock[h] = t

CanStep(t) ==
  /\ lockprog[t] # <<>>
  /\ Todo(t, "take_cache") => cachelock = NoThread
  /\ Todo(t, "take_file") => filelock[Head(lockprog[t]).f] = NoThread

C12_CacheBeforeFile ==
  \A t \in Threads : Todo(t, "take_cache") => ~HoldsFileLock(t)

C12_NoDeadlock ==
  (\E t \in Threads : lockprog[t] # <<>>) => \E t \in Threads : CanStep(t)

C13_NoSysCallUnderCacheLock ==
  \A t \in Threads :
    cachelock = t => ~(lockprog[t] # <<>> /\ Head(lockprog[t]).op \in SysCalls)

\* C14: eina_file_map_new returns NULL, and so maps nothing, whenever offset
\* plus length, added as numbers, is more than the length of the file: for
\* every offset and length an unsigned long holds, those whose sum in
\* unsigned long wraps around included.
C14_OutsideFileIsRefused ==
  rq.done /\ rq.offset + rq.length > rq.flen => rq.ret = NULL

\* The parts of C15: addr is the address of no mapping of h.
NoMappingAt(h, addr) ==
  /\ ~(file[h].global_map # MAP_FAILED /\ file[h].global_map = addr)
  /\ WindowAt(file[h], addr) = {}

C15_NothingChanges ==
  \A t \in Threads, h \in Handles, a \in FreeAddrs :
    NoMappingAt(h, a) /\ eina_file_map_free(t, h, a)
      => UNCHANGED <<file, mapped, cache>>

\* C15: eina_file_map_free with an address that is neither the address of the
\* whole-file mapping of the handle nor the address of one of its windows
\* changes no reference count, unmaps nothing and leaves both tables as they
\* were; an address that was given back before and MAP_FAILED, which the
\* handle stores while the whole file is not mapped, are such addresses.
C15_UnknownAddressIgnored == [][C15_NothingChanges]_vars

\* The parts of C16.
LiveHandles == {h \in Handles : file[h].st = "live"}

C16_NoDescriptorLeft == nfd = Cardinality(LiveHandles)

C16_NothingGained ==
  lastcall' = "open_failed" =>
    /\ cache' \subseteq cache
    /\ held' = held
    /\ \A h \in Handles :
         Live(h) => file'[h].st = "live" /\ file'[h].refcount = file[h].refcount

\* C16: an eina_file_open that fails (the path cannot be sanitized, the
\* descriptor cannot be opened, fstat fails, shared memory is not supported,
\* the handle cannot be allocated) returns no handle, adds no entry to the
\* cache, changes the refcount of no handle, and leaves no descriptor open:
\* the open descriptors are those of the handles.
C16_FailedOpen == [](C16_NoDescriptorLeft) /\ [][C16_NothingGained]_vars

\* An open failed after a stale handle was evicted: the callers still hold
\* the old handle and the cache holds none.
C16_Witness ==
  /\ lastcall = "open_failed"
  /\ cache = {}
  /\ \E h \in Handles : Live(h) /\ file[h].delete_me /\ held[h] > 0

\* The part of C17 about the lock, which SpecLock decides: a thread that is in
\* no call holds no lock.
C17_NoLockKept ==
  \A t \in Threads :
    lockprog[t] = <<>> => cachelock # t /\ \A h \in Handles : filelock[h] # t

C18_Owned ==
  \A i \in LineIterators :
    lines[i] # NoIter =>
      LET h == lines[i].fp
      IN /\ file[h].st = "live"
         /\ file[h].refcount >= held[h] + 1
         /\ file[h].global_map = lines[i].map
         /\ file[h].global_map # MAP_FAILED
         /\ file[h].global_refcount >= 1
         /\ GlobalPages(h) \subseteq mapped

C18_Disposal ==
  \A i \in LineIterators :
    lines[i] # NoIter /\ lines'[i] = NoIter =>
      LET h == lines[i].fp
      IN /\ \A g \in Handles \ {h} : file'[g] = file[g]
         /\ held' = held
         /\ IF file[h].refcount > 1
            THEN /\ file'[h].refcount = file[h].refcount - 1
                 /\ file'[h].global_refcount = file[h].global_refcount - 1
                 /\ file'[h].map = file[h].map
                 /\ file'[h].fkeys = file[h].fkeys
                 /\ (file[h].global_refcount > 1 => mapped' = mapped)
            ELSE file'[h].st = "freed" /\ mapped' \cap GlobalPages(h) = {}

\* C18: from eina_file_map_lines to the disposal of the iterator, the
\* refcount of the handle and the global_refcount of its whole-file mapping
\* each hold one reference the iterator owns: the handle is not destroyed and
\* the whole file stays mapped at the address the iterator reads, whatever the
\* other holders close and give back; the disposal gives back those two
\* references and nothing else.
C18_IteratorReferences == [](C18_Owned) /\ [][C18_Disposal]_vars

\* Every other holder closed the handle and gave the mapping back: the
\* iterator alone keeps both alive.
C18_Witness ==
  \E i \in LineIterators :
    /\ lines[i] # NoIter
    /\ held[lines[i].fp] = 0
    /\ file[lines[i].fp].refcount = 1
    /\ file[lines[i].fp].global_refcount = 1

\* The parts of C19: the maximal runs of bytes of B that are neither line
\* feed nor carriage return, as <<start, length>>, in the order of the buffer.
IsEol(b) == b \in {"LF", "CR"}

RunStarts(B) ==
  {i \in 0 .. Len(B) - 1 :
     ~IsEol(At(B, i)) /\ (i = 0 \/ IsEol(At(B, i - 1)))}

RunEnd(B, i) ==
  CHOOSE j \in i + 1 .. Len(B) :
    /\ \A k \in i .. j - 1 : ~IsEol(At(B, k))
    /\ j = Len(B) \/ IsEol(At(B, j))

RECURSIVE RunsFrom(_, _)
RunsFrom(B, S) ==
  IF S = {} THEN <<>>
  ELSE LET i == CHOOSE m \in S : \A n \in S : m <= n
       IN <<<<i, RunEnd(B, i) - i>>>> \o RunsFrom(B, S \ {i})

Runs(B) == RunsFrom(B, RunStarts(B))

IsPrefix(s, t) == Len(s) <= Len(t) /\ \A k \in 1 .. Len(s) : s[k] = t[k]

\* C19: on every buffer the iterator returns, in order, exactly the maximal
\* runs of bytes that hold neither line feed nor carriage return, each with
\* the offset of its first byte and the number of its bytes (the terminator
\* not counted), the last run of a buffer that does not end in a terminator
\* included: what it returned so far starts the list of the runs, and is the
\* whole list once it returned none.
C19_YieldsTheRuns ==
  /\ IsPrefix(spans, Runs(buf))
  /\ it.ret = "none" => spans = Runs(buf)

\* The parts of C20.
C20_Advances == it'.ret = "span" => it'.end > it.end /\ it'.end <= Len(buf)

C20_NoneStays == it.ret = "none" => it'.ret = "none" /\ spans' = spans

C20_Returns == it'.ret # "fault"

\* C20: on every buffer next returns none after finitely many calls (every
\* call returns, and one that returns a line moves current.end forward,
\* never past the end of the buffer), and once it returned none every later
\* call returns none and no line.
C20_Terminates == [][C20_Advances /\ C20_NoneStays /\ C20_Returns]_vars

\* C28: however eina_file_open and eina_file_close of concurrent threads
\* interleave, a handle that has references and was not evicted as stale is
\* in the cache under its filename: a close that brought the refcount to zero
\* does not remove from the cache a handle that an open has referenced again
\* in the meantime.
C28_ReferencedIsCached ==
  \A h \in Handles :
    Live(h) /\ file[h].refcount > 0 /\ ~file[h].delete_me => h \in cache

\* C29: eina_file_open reuses a cached handle exactly when the fresh stat
\* equals the stat the handle was opened with in all five fields: device,
\* inode, size, modification time and its nanoseconds. A difference in one
\* field alone, the device included, makes the handle stale.
C29_ReusedIffSameIdentity ==
  fn.name = "compare" /\ fn.done => (fn.ret <=> fn.old = fn.st)

\* The parts of C30.
C30_Marked(h, a) ==
  /\ InWholeFile(h, a) => file[h].global_faulty
  /\ \A k \in WinKeys : InWindow(h, k, a) => file[h].map[k].faulty

\* C30: a fault at an address inside a live mapping of a handle that has
\* references is recorded on that mapping, whether the handle is in the cache
\* or was removed from it as stale while a caller still holds and maps it.
C30_FaultOnHeldHandle ==
  \A a \in FaultAddrs :
    fn = Faulted(a) =>
      \A h \in Handles : Live(h) /\ file[h].refcount > 0 => C30_Marked(h, a)

\* The parts of C21.
Quiescent == \A t \in Threads : pc[t] = "idle"

IteratorsOn(h) == Cardinality({i \in LineIterators : lines[i] # NoIter /\ lines[i].fp = h})

C21_NoLostUpdate ==
  Quiescent =>
    \A h \in Handles :
      Live(h) => /\ file[h].refcount = held[h] + IteratorsOn(h)
                 /\ file[h].global_refcount = IteratorsOn(h)

C21_DestroyedOnce ==
  /\ ~uaf
  /\ \A h \in Handles :
       /\ ndestroy[h] <= 1
       /\ (ndestroy[h] = 1) = (file[h].st = "freed")
       /\ (file[h].st = "freed" => held[h] = 0 /\ IteratorsOn(h) = 0)
       /\ Quiescent /\ held[h] = 0 /\ IteratorsOn(h) = 0 => ~Live(h)

\* C21: threads that create and dispose of their own line iterators on one
\* handle at the same time lose no update of refcount or global_refcount,
\* and when the iterators hold the last references, their disposal destroys
\* the handle exactly once and no thread touches it afterwards.
C21_ConcurrentIterators == C21_NoLostUpdate /\ C21_DestroyedOnce

\* The parts of C22.
Registered(p) == \E h \in cache : file[h].filename = p

C22_Reports ==
  ~shut /\ shut' =>
    /\ \A p \in Paths : errlog'[p] = IF Registered(p) THEN 1 ELSE 0
    /\ file' = file
    /\ mapped' = mapped
    /\ nfd' = nfd
    /\ ndestroy' = ndestroy

\* C22: eina_file_shutdown logs one message for every path that still has a
\* handle in the cache and none for any other path, and it closes no
\* descriptor, unmaps nothing and frees no handle.
C22_ShutdownReportsLeaks == [][C22_Reports]_vars

\* The library was shut down with a handle in the cache that is mapped, and
\* with another one that was taken out of the cache as stale and is still held.
C22_Witness ==
  /\ shut
  /\ \E p \in Paths : errlog[p] = 1
  /\ \E h \in Handles : Live(h) /\ ~file[h].delete_me /\ GlobalPages(h) \subseteq mapped
                          /\ file[h].global_map # MAP_FAILED
  /\ \E h \in Handles : Live(h) /\ file[h].delete_me

\* C23: sanitizing a sanitized path gives the same path again.
C23_Idempotent ==
  fn.name = "sanitize" /\ fn.calls = 2 => fn.again = fn.ret

\* A relative path with a parent segment was sanitized twice.
C23_Witness ==
  /\ fn.name = "sanitize" /\ fn.calls = 2
  /\ fn.path = <<"a", "/", ".", ".", "/", "a">>
  /\ fn.again = fn.ret

\* The parts of C24: the segments of a path, and what is left of them when
\* every ".." took the segment before it with it.
RECURSIVE Segments(_)
Segments(str) ==
  IF str = <<>> THEN <<>>
  ELSE IF Head(str) = "/" THEN Segments(Tail(str))
  ELSE LET stops == {i \in 1 .. Len(str) : str[i] = "/"}
           n == IF stops = {} THEN Len(str)
                ELSE (CHOOSE i \in stops : \A j \in stops : i <= j) - 1
       IN <<SubSeq(str, 1, n)>> \o Segments(SubSeq(str, n + 1, Len(str)))

DotDot == <<".", ".">>

RECURSIVE Resolve(_, _)
Resolve(segs, kept) ==
  IF segs = <<>> THEN kept
  ELSE IF Head(segs) = DotDot
  THEN Resolve(Tail(segs), IF kept = <<>> THEN kept ELSE SubSeq(kept, 1, Len(kept) - 1))
  ELSE Resolve(Tail(segs), Append(kept, Head(segs)))

Absolute(str) == str # <<>> /\ str[1] = "/"

Resolved(path, cwd) ==
  Resolve(Segments(IF Absolute(path) THEN path ELSE cwd \o <<"/">> \o path), <<>>)

Sanitized == fn.name = "sanitize" /\ fn.calls = 1 /\ fn.ret # NoString

\* C24: the sanitized form of a path, absolute or relative to the working
\* directory, is absolute, has no two separators in a row and no ".." segment:
\* every ".." is gone with the nearest segment before it that is not "..",
\* a ".." with nothing before it is dropped, and a ".." at the end takes the
\* whole last segment with it.
C24_Canonical ==
  Sanitized =>
    /\ Absolute(fn.ret)
    /\ \A i \in 1 .. Len(fn.ret) - 1 : ~(fn.ret[i] = "/" /\ fn.ret[i + 1] = "/")
    /\ \A i \in 1 .. Len(Segments(fn.ret)) : Segments(fn.ret)[i] # DotDot
    /\ Segments(fn.ret) = Resolved(fn.path, fn.cwd)

\* C25: eina_file_path_sanitize returns no string for a null path, and none
\* for the empty path.
C25_NullAndEmptyFail ==
  fn.name = "sanitize" /\ fn.calls = 1 /\ fn.path \in {NoString, <<>>} => fn.ret = NoString

\* The parts of C26: where the runs of bytes other than the separator start
\* in a string, and where each of them ends.
SegStarts(str) ==
  {i \in 1 .. Len(str) : str[i] # "/" /\ (i = 1 \/ str[i - 1] = "/")}

SegEnd(str, i) ==
  CHOOSE j \in i .. Len(str) :
    /\ \A k \in i .. j : str[k] # "/"
    /\ j = Len(str) \/ str[j + 1] = "/"

StartsBefore(str, i) == Cardinality({j \in SegStarts(str) : j < i})

SplitDone == fn.name = "split" /\ fn.done /\ fn.ret # NoArray

\* C26: eina_file_split returns, in their order, the maximal non-empty runs of
\* bytes other than the separator, each byte for byte: a separator at the
\* start, at the end, or after another separator gives no element.
C26_SplitsIntoRuns ==
  SplitDone =>
    /\ Len(fn.ret) = Cardinality(SegStarts(fn.path))
    /\ \A i \in SegStarts(fn.path) :
         fn.ret[StartsBefore(fn.path, i) + 1] = SubSeq(fn.path, i, SegEnd(fn.path, i))

\* A path that starts with a separator, has two in a row and ends with one
\* was split in two.
C26_Witness ==
  /\ SplitDone
  /\ fn.path = <<"/", "a", "/", "/", ".", "/">>
  /\ fn.ret = << <<"a">>, <<".">> >>

\* The parts of C27.  The directories whose entries the call is to report:
\* the one it is given and, when recursive is set, every subdirectory that
\* is reported as a directory in one of them.
RECURSIVE Listed(_)
Listed(i) ==
  IF i = 0 THEN TRUE
  ELSE fn.recursive /\ Listed(i - 1) /\ InfoType(fn.tree, Entry(i - 1, "sub")) = "EINA_FILE_DIR"

Refused == ~fn.cb \/ fn.tree.dir \in {"null", "empty", "missing"}

ToReport == {e \in AllEntries : Listed(e.level) /\ e \in EntriesOf(fn.tree, e.level) /\ ~IsDots(e)}

C27_Returned == fn.name = "dir_list" /\ fn.ret \in {"EINA_TRUE", "EINA_FALSE"}

C27_Result ==
  C27_Returned =>
    IF Refused
    THEN fn.ret = "EINA_FALSE" /\ \A e \in AllEntries : fn.calls[e] = 0
    ELSE fn.ret = "EINA_TRUE"

RECURSIVE Entered(_)
Entered(i) ==
  IF i = 0 THEN TRUE
  ELSE /\ fn.recursive /\ Entered(i - 1) /\ CanOpen(fn.tree, i)
       /\ InfoType(fn.tree, Entry(i - 1, "sub")) = "EINA_FILE_DIR"

Reported == {e \in AllEntries : Entered(e.level) /\ e \in EntriesOf(fn.tree, e.level) /\ ~IsDots(e)}

C32_WholeFile(h) ==
  /\ fn'.name = "map_new"
  /\ fn'.h = h
  /\ fn'.offset = 0
  /\ fn'.length = Length(file, h)

C32_MapsAsMapAll ==
  \A h \in Handles :
    C32_WholeFile(h) =>
      /\ MapAllLocked(h)
      /\ fn'.ret = MapAllRet(h)
      /\ file'[h].fkeys = file[h].fkeys
      /\ file'[h].rkeys = file[h].rkeys
      /\ file'[h].map = file[h].map
      /\ outstanding' = outstanding
      /\ IF fn'.ret # NULL
         THEN /\ fn'.ret = file'[h].global_map
              /\ fn'.ret # MAP_FAILED
              /\ file[h].global_map # MAP_FAILED => fn'.ret = file[h].global_map
              /\ file'[h].global_refcount = file[h].global_refcount + 1
              /\ PagesOf(fn'.ret, Length(file, h)) \subseteq mapped'
         ELSE file' = file /\ mapped' = mapped

C32_UnmapsAsMapAll ==
  \A h \in Handles :
    fn'.name = "map_free" /\ fn'.h = h /\ fn'.addr = file[h].global_map =>
      /\ file'[h].global_refcount = file[h].global_refcount - 1
      /\ file'[h].map = file[h].map
      /\ outstanding' = outstanding
      /\ file'[h].global_refcount = 0 =>
            /\ file'[h].global_map = MAP_FAILED
            /\ mapped' = mapped \ PagesOf(fn'.addr, Length(file, h))

\* C32: eina_file_map_new(file, rule, 0, file->length) does what
\* eina_file_map_all does: it returns the address of the whole-file mapping
\* (NULL when the file cannot be mapped), takes one reference to it in
\* global_refcount and leaves both tables of windows as they are; and
\* eina_file_map_free of that address gives one reference of
\* global_refcount back, unmapping the file with the last one.
C32_WholeFileWindow == [][C32_MapsAsMapAll /\ C32_UnmapsAsMapAll]_vars

\* eina_file_map_new(0, length of the file) returned the address of a
\* whole-file mapping that was there already, on a handle that has a window
\* too.
C32_Witness ==
  /\ fn.name = "map_new"
  /\ fn.offset = 0
  /\ fn.ret # NULL
  /\ file[fn.h].global_refcount = 2
  /\ file[fn.h].global_map = fn.ret
  /\ file[fn.h].fkeys # {}

\* The parts of C33.  The ways lines are ended.
Terminators == {<<"LF">>, <<"CR">>, <<"CR", "LF">>, <<"LF", "CR">>}

\* The offset of the first byte of B at or after i that is no text.
RECURSIVE TextEnd(_, _)
TextEnd(B, i) == IF i < Len(B) /\ At(B, i) = "x" THEN TextEnd(B, i + 1) ELSE i

\* From offset i on, B is lines that are not empty, each but the last ended
\* by sep, the last one ended by sep or by the end of the buffer.
RECURSIVE JoinedBy(_, _, _)
JoinedBy(B, i, sep) ==
  /\ i < Len(B)
  /\ At(B, i) = "x"
  /\ LET j == TextEnd(B, i)
     IN \/ j = Len(B)
        \/ /\ j + Len(sep) <= Len(B)
           /\ SubSeq(B, j + 1, j + Len(sep)) = sep
           /\ j + Len(sep) = Len(B) \/ JoinedBy(B, j + Len(sep), sep)

C33_Numbered(seps) ==
  (\E sep \in seps : JoinedBy(buf, 0, sep)) /\ it'.ret = "span"
    => it'.index = Len(spans')

\* C33: in a buffer of lines that are not empty, all ended the same way, by
\* "\n", by "\r", by "\r\n" or by "\n\r", the k-th line next returns has the
\* index k.
C33_IndexIsLineNumber == [][C33_Numbered(Terminators)]_vars

\* The parts of C34.  The last offset a call of next reads, from line 1187
\* on: the bytes of the loop, then those of _eina_fine_eol.
C34_LastRead ==
  LET e == SkipReads(buf, it.end)
  IN IF e >= Len(buf) THEN e
     ELSE LET m == EolReads(buf, e, it.boundary, Len(buf))
          IN IF m > e THEN m ELSE e

\* C34: a call of next reads no byte outside the mapped buffer, whatever the
\* buffer holds, also when it ends in one or more terminator bytes.
C34_ReadsInsideBuffer ==
  [][it.ret # "fault" /\ it.end < Len(buf) => C34_LastRead < Len(buf)]_vars

\* The parts of C35.  The whole file of h is mapped by this step.
C35_Mapped(h) ==
  /\ file[h].st = "live"
  /\ file[h].global_map = MAP_FAILED
  /\ file'[h].st = "live"
  /\ file'[h].global_map # MAP_FAILED

\* The whole-file mapping of h stays and is reported faulty from this step on.
C35_Marked(h) ==
  /\ file[h].st = "live"
  /\ file'[h].st = "live"
  /\ file[h].global_map # MAP_FAILED
  /\ file'[h].global_map = file[h].global_map
  /\ ~eina_file_map_faulted(file[h], file[h].global_map)
  /\ eina_file_map_faulted(file'[h], file[h].global_map)

C35_NewMappingIsClean ==
  \A h \in Handles :
    C35_Mapped(h) => ~eina_file_map_faulted(file'[h], file'[h].global_map)

C35_OnlyAFaultMarks ==
  \A h \in Handles :
    C35_Marked(h) => fn'.name = "fault"

\* C35: a whole-file mapping made by eina_file_map_all, also after an
\* earlier whole-file mapping of the same handle was marked faulty and given
\* back to the last reference, is not reported faulty by
\* eina_file_map_faulted until a fault is reported.  (Which addresses the
\* fault propagator takes to be in a mapping is C8.)
C35_RemappedIsClean == [][C35_NewMappingIsClean /\ C35_OnlyAFaultMarks]_vars

\* The parts of C36.  The record of the window k of h is made by this step.
C36_Created(h, k) ==
  /\ file[h].st = "live"
  /\ file'[h].st = "live"
  /\ k \notin file[h].fkeys
  /\ k \in file'[h].fkeys

\* The record of the window k of h stays and is marked by this step.
C36_Marked(h, k) ==
  /\ file[h].st = "live"
  /\ file'[h].st = "live"
  /\ k \in file[h].fkeys
  /\ k \in file'[h].fkeys
  /\ ~file[h].map[k].faulty
  /\ file'[h].map[k].faulty

C36_NewRecordIsClean ==
  \A h \in Handles, k \in WinKeys : C36_Created(h, k) => ~file'[h].map[k].faulty

C36_OnlyAFaultMarksRecord ==
  \A h \in Handles, k \in WinKeys : C36_Marked(h, k) => fn'.name = "fault"

\* C36: the record eina_file_map_new makes for a window starts with its
\* faulty flag false, whatever was done with the handle before, and the flag
\* of a record becomes true only in a call of eina_file_mmap_faulty.  (Which
\* addresses the fault propagator takes to be in a window is C8.)
C36_NewWindowIsClean == [][C36_NewRecordIsClean /\ C36_OnlyAFaultMarksRecord]_vars

\* C37: whatever addresses eina_file_map_free is called with, the
\* global_refcount of a handle is never negative, and the whole file is
\* mapped (global_map is an address, and its pages are mapped) exactly while
\* global_refcount is above zero.
C37_GlobalRefcount ==
  \A h \in Handles :
    Live(h) =>
      /\ file[h].global_refcount >= 0
      /\ file[h].global_map # MAP_FAILED <=> file[h].global_refcount > 0
      /\ file[h].global_refcount > 0 => GlobalPages(h) \subseteq mapped

\* The parts of C38.
C38_LastCloseOfStale(h) ==
  /\ fn'.name = "close"
  /\ fn'.h = h
  /\ fn'.stale
  /\ fn'.final

C38_DestroysOnlyThat ==
  \A h \in Handles :
    C38_LastCloseOfStale(h) =>
      /\ file'[h].st = "freed"
      /\ ndestroy' = [ndestroy EXCEPT ![h] = @ + 1]
      /\ nfd' = nfd - 1
      /\ mapped' = (mapped \ WindowPages(file[h])) \ GlobalPages(h)
      /\ cache' = cache
      /\ \A g \in Handles \ {h} : file'[g] = file[g]

C39_CacheIsLive == \A h \in cache : Live(h)

\* A mark appears on a mapping of h that was there before the step.
C39_NewMark(h) ==
  /\ file[h].st = "live"
  /\ file'[h].st = "live"
  /\ \/ ~file[h].global_faulty /\ file'[h].global_faulty
     \/ \E k \in file[h].fkeys \cap file'[h].fkeys :
          ~file[h].map[k].faulty /\ file'[h].map[k].faulty

C39_MarksRegistered ==
  \A h \in Handles : C39_NewMark(h) => h \in cache /\ h \in cache'

\* C39: while threads open and close files and faults are reported, in any
\* order of their steps, the cache holds no handle that was destroyed
\* whenever its lock is free, and the fault propagator marks only handles
\* that are in the cache.
C39_FaultsSeeLiveHandles == [](C39_CacheIsLive) /\ [][C39_MarksRegistered]_vars

\* A fault was marked on a handle in the cache after another handle was
\* destroyed, while a thread is between the steps of a close.
C39_Witness ==
  /\ \E h \in cache : file[h].global_faulty /\ file[h].global_map # MAP_FAILED
  /\ \E g \in Handles : file[g].st = "freed"
  /\ \E t \in Threads : pc[t] \in {"close_test", "close_del"}

\* The parts of C40.  What thread t still has to do in its call holds op.
C40_Pending(t, op) == \E i \in DOMAIN lockprog[t] : lockprog[t][i] = op

\* Every lock a thread holds is one its call gives back before it returns.
C40_HeldIsGivenBack ==
  \A t \in Threads :
    /\ cachelock = t => C40_Pending(t, release_cache)
    /\ \A h \in Handles : filelock[h] = t => C40_Pending(t, release(h))

\* C40: a call of eina_file_open, eina_file_close, eina_file_map_all,
\* eina_file_map_new, eina_file_map_free, eina_file_map_faulted,
\* eina_file_map_lines, the disposal of a line iterator or
\* eina_file_mmap_faulty, whichever way it takes through the function, has
\* given back every lock it took when it returns: a thread that is in no
\* call holds no lock.
C40_LocksReleasedOnReturn ==
  /\ C40_HeldIsGivenBack
  /\ \A t \in Threads :
       lockprog[t] = <<>> => cachelock # t /\ \A h \in Handles : filelock[h] # t

\* malloc failed in eina_file_open after a stale handle was destroyed: the
\* thread is on its way to on_error with the cache lock still to give back,
\* and another thread waits for that lock.
C40_Witness ==
  \E t, u \in Threads :
    /\ t # u
    /\ cachelock = t
    /\ lockprog[t] = <<release_cache, sys("close")>>
    /\ Todo(u, "take_cache")

\* C31: every call of the fault propagator returns, having given back the
\* locks it took, as long as the other threads give back theirs; also when
\* it is started by a read the interrupted thread makes inside a map
\* operation, under the lock of a file.
C31_HandlerReturns == \A t \in Threads : InHandler(t) ~> ~InHandler(t)

====
